---- MODULE Spec2Model ----
(***************************************************************************)
(* Athlete resolution pipeline of player-hunt (src/athlete_lookup.py) and  *)
(* the ingestion job that builds its local index                           *)
(* (src/download_athletes.py, src/convert_to_sqlite.py).                   *)
(*                                                                         *)
(* A Python str is a sequence of one-character strings, so that lower(),   *)
(* strip(), title(), replace(), the `in` substring test and SQL LIKE are   *)
(* computed character by character.  A character outside Latin-1 is the    *)
(* atom "U+xxxx".  The letters that change case are the ASCII letters.     *)
(***************************************************************************)
EXTENDS Integers, Sequences, FiniteSets, TLC

VARIABLES
    db,            \* athletes_db.sqlite as _search_local_* see it: [state, rows]
    wiki,          \* the Wikidata service: [net, items]
    label_cache,   \* _label_cache: Q-id -> English label
    pc,            \* position of the running lookup_athlete call
    athlete_name,  \* its argument
    api,           \* frame of the running _lookup_via_api / _search_entity
    calls,         \* strategies completed so far in this call: [fn, arg, res]
    requests,      \* HTTP requests issued so far in this call: [action, arg]
    result,        \* its return value
    history,       \* the calls completed before it: [name, res]
    local_call,    \* a direct call of one function: [fn, arg, res]
    getters,       \* the running _get_label calls of concurrent script runs
    room,          \* the room document in the Firebase store
    sessions       \* per player, the position and locals of their app.py script run

vars == <<db, wiki, label_cache, pc, athlete_name, api, calls, requests, result,
          history, local_call, getters, room, sessions>>

\* what the resolution pipeline reads and writes, and what the room code does
lookup_vars == <<db, wiki, label_cache, pc, athlete_name, api, calls, requests, result,
                 history, local_call>>
room_vars == <<room, sessions>>

----------------------------------------------------------------------------
(* Python values *)

\* None and a present value
None == [some |-> FALSE]
Some(x) == [some |-> TRUE, val |-> x]

\* string.ascii_lowercase, the alphabet _search_entity iterates over
ascii_lowercase ==
    <<"a","b","c","d","e","f","g","h","i","j","k","l","m",
      "n","o","p","q","r","s","t","u","v","w","x","y","z">>

ascii_uppercase ==
    <<"A","B","C","D","E","F","G","H","I","J","K","L","M",
      "N","O","P","Q","R","S","T","U","V","W","X","Y","Z">>

\* characters str.strip() removes: space, tab, no-break space
whitespace == {" ", "\t", "U+00A0"}

\* letters without an ASCII case pair (cased for title(), unchanged by lower())
other_letters == {"é", "U+0107"}

lower_char(c) ==
    IF \E i \in 1..26 : ascii_uppercase[i] = c
    THEN ascii_lowercase[CHOOSE i \in 1..26 : ascii_uppercase[i] = c]
    ELSE c

upper_char(c) ==
    IF \E i \in 1..26 : ascii_lowercase[i] = c
    THEN ascii_uppercase[CHOOSE i \in 1..26 : ascii_lowercase[i] = c]
    ELSE c

is_cased(c) ==
    \/ \E i \in 1..26 : ascii_lowercase[i] = c \/ ascii_uppercase[i] = c
    \/ c \in other_letters

\* str.lower()
lower(s) == [i \in 1..Len(s) |-> lower_char(s[i])]

\* str.title(): a letter after a cased letter is lowered, any other letter raised
title(s) ==
    [i \in 1..Len(s) |->
        IF i > 1 /\ is_cased(s[i - 1]) THEN lower_char(s[i]) ELSE upper_char(s[i])]

\* str.strip()
strip(s) ==
    LET keep == {i \in 1..Len(s) : s[i] \notin whitespace}
    IN  IF keep = {} THEN <<>>
        ELSE SubSeq(s, CHOOSE i \in keep : \A j \in keep : i <= j,
                       CHOOSE i \in keep : \A j \in keep : i >= j)

\* the `sub in s` substring test
contains(sub, s) ==
    \E i \in 0..(Len(s) - Len(sub)) : SubSeq(s, i + 1, i + Len(sub)) = sub

\* str.startswith
startswith(s, prefix) ==
    Len(prefix) <= Len(s) /\ SubSeq(s, 1, Len(prefix)) = prefix

\* str.replace(old, new): non-overlapping occurrences, left to right (old # "")
RECURSIVE replace(_, _, _)
replace(s, old, new) ==
    IF Len(s) < Len(old) THEN s
    ELSE IF SubSeq(s, 1, Len(old)) = old
         THEN new \o replace(SubSeq(s, Len(old) + 1, Len(s)), old, new)
         ELSE <<Head(s)>> \o replace(Tail(s), old, new)

\* SQLite `text LIKE pattern`: % any run, _ any one character, ASCII letters
\* compared case-insensitively, no ESCAPE character
RECURSIVE like(_, _)
like(text, pattern) ==
    IF pattern = <<>> THEN text = <<>>
    ELSE IF Head(pattern) = "%"
         THEN like(text, Tail(pattern)) \/ (text # <<>> /\ like(Tail(text), pattern))
         ELSE /\ text # <<>>
              /\ Head(pattern) = "_" \/ lower_char(Head(pattern)) = lower_char(Head(text))
              /\ like(Tail(text), Tail(pattern))

\* dict lookups on a table kept as a sequence of <<key, value>> in insertion order
has_key(table, k) == \E i \in 1..Len(table) : table[i][1] = k
get(table, k) == table[CHOOSE i \in 1..Len(table) : table[i][1] = k][2]
values(table) == {table[i][2] : i \in 1..Len(table)}
elements(list) == {list[i] : i \in 1..Len(list)}

----------------------------------------------------------------------------
(* The literal tables of the source *)

\* athlete_lookup.py FAMOUS_ATHLETES: alias key -> canonical full name (24-55)
FAMOUS_ATHLETES ==
    <<
    <<<<"n","a","d","a","l">>, <<"R","a","f","a","e","l"," ","N","a","d","a","l">>>>,
    <<<<"f","e","d","e","r","e","r">>, <<"R","o","g","e","r"," ","F","e","d","e","r","e","r">>>>,
    <<<<"d","j","o","k","o","v","i","c">>, <<"N","o","v","a","k"," ","D","j","o","k","o","v","i","c">>>>,
    <<<<"m","e","s","s","i">>, <<"L","i","o","n","e","l"," ","M","e","s","s","i">>>>,
    <<<<"r","o","n","a","l","d","o">>, <<"C","r","i","s","t","i","a","n","o"," ","R","o","n","a","l","d","o">>>>,
    <<<<"n","e","y","m","a","r">>, <<"N","e","y","m","a","r">>>>,
    <<<<"l","e","b","r","o","n">>, <<"L","e","B","r","o","n"," ","J","a","m","e","s">>>>,
    <<<<"k","o","b","e">>, <<"K","o","b","e"," ","B","r","y","a","n","t">>>>,
    <<<<"j","o","r","d","a","n">>, <<"M","i","c","h","a","e","l"," ","J","o","r","d","a","n">>>>,
    <<<<"s","e","r","e","n","a">>, <<"S","e","r","e","n","a"," ","W","i","l","l","i","a","m","s">>>>,
    <<<<"v","e","n","u","s">>, <<"V","e","n","u","s"," ","W","i","l","l","i","a","m","s">>>>,
    <<<<"t","i","g","e","r">>, <<"T","i","g","e","r"," ","W","o","o","d","s">>>>,
    <<<<"b","o","l","t">>, <<"U","s","a","i","n"," ","B","o","l","t">>>>,
    <<<<"p","h","e","l","p","s">>, <<"M","i","c","h","a","e","l"," ","P","h","e","l","p","s">>>>,
    <<<<"s","h","a","r","a","p","o","v","a">>, <<"M","a","r","i","a"," ","S","h","a","r","a","p","o","v","a">>>>,
    <<<<"b","e","c","k","h","a","m">>, <<"D","a","v","i","d"," ","B","e","c","k","h","a","m">>>>,
    <<<<"z","i","d","a","n","e">>, <<"Z","i","n","e","d","i","n","e"," ","Z","i","d","a","n","e">>>>,
    <<<<"m","a","r","a","d","o","n","a">>, <<"D","i","e","g","o"," ","M","a","r","a","d","o","n","a">>>>,
    <<<<"p","e","l","e">>, <<"P","e","l","é">>>>,
    <<<<"t","y","s","o","n">>, <<"M","i","k","e"," ","T","y","s","o","n">>>>,
    <<<<"a","l","i">>, <<"M","u","h","a","m","m","a","d"," ","A","l","i">>>>,
    <<<<"s","c","h","u","m","a","c","h","e","r">>, <<"M","i","c","h","a","e","l"," ","S","c","h","u","m","a","c","h","e","r">>>>,
    <<<<"h","a","m","i","l","t","o","n">>, <<"L","e","w","i","s"," ","H","a","m","i","l","t","o","n">>>>,
    <<<<"v","e","r","s","t","a","p","p","e","n">>, <<"M","a","x"," ","V","e","r","s","t","a","p","p","e","n">>>>,
    <<<<"c","u","r","r","y">>, <<"S","t","e","p","h","e","n"," ","C","u","r","r","y">>>>,
    <<<<"d","u","r","a","n","t">>, <<"K","e","v","i","n"," ","D","u","r","a","n","t">>>>,
    <<<<"m","b","a","p","p","e">>, <<"K","y","l","i","a","n"," ","M","b","a","p","p","é">>>>,
    <<<<"h","a","a","l","a","n","d">>, <<"E","r","l","i","n","g"," ","H","a","a","l","a","n","d">>>>,
    <<<<"m","o","d","r","i","c">>, <<"L","u","k","a"," ","M","o","d","r","i","U+0107">>>>,
    <<<<"b","e","n","z","e","m","a">>, <<"K","a","r","i","m"," ","B","e","n","z","e","m","a">>>>
    >>

\* _normalize_sport, normalizations: lowercased label -> sport (339-374)
sport_normalizations ==
    <<
    <<<<"a","s","s","o","c","i","a","t","i","o","n"," ","f","o","o","t","b","a","l","l">>, <<"F","o","o","t","b","a","l","l">>>>,
    <<<<"f","o","o","t","b","a","l","l">>, <<"F","o","o","t","b","a","l","l">>>>,
    <<<<"s","o","c","c","e","r">>, <<"F","o","o","t","b","a","l","l">>>>,
    <<<<"b","a","s","k","e","t","b","a","l","l">>, <<"B","a","s","k","e","t","b","a","l","l">>>>,
    <<<<"t","e","n","n","i","s">>, <<"T","e","n","n","i","s">>>>,
    <<<<"c","r","i","c","k","e","t">>, <<"C","r","i","c","k","e","t">>>>,
    <<<<"g","o","l","f">>, <<"G","o","l","f">>>>,
    <<<<"b","a","s","e","b","a","l","l">>, <<"B","a","s","e","b","a","l","l">>>>,
    <<<<"i","c","e"," ","h","o","c","k","e","y">>, <<"H","o","c","k","e","y">>>>,
    <<<<"s","w","i","m","m","i","n","g">>, <<"S","w","i","m","m","i","n","g">>>>,
    <<<<"a","t","h","l","e","t","i","c","s">>, <<"A","t","h","l","e","t","i","c","s">>>>,
    <<<<"t","r","a","c","k"," ","a","n","d"," ","f","i","e","l","d">>, <<"A","t","h","l","e","t","i","c","s">>>>,
    <<<<"b","o","x","i","n","g">>, <<"B","o","x","i","n","g">>>>,
    <<<<"m","i","x","e","d"," ","m","a","r","t","i","a","l"," ","a","r","t","s">>, <<"M","M","A">>>>,
    <<<<"r","u","g","b","y"," ","u","n","i","o","n">>, <<"R","u","g","b","y">>>>,
    <<<<"r","u","g","b","y"," ","l","e","a","g","u","e">>, <<"R","u","g","b","y">>>>,
    <<<<"c","y","c","l","i","n","g">>, <<"C","y","c","l","i","n","g">>>>,
    <<<<"a","r","t","i","s","t","i","c"," ","g","y","m","n","a","s","t","i","c","s">>, <<"G","y","m","n","a","s","t","i","c","s">>>>,
    <<<<"g","y","m","n","a","s","t","i","c","s">>, <<"G","y","m","n","a","s","t","i","c","s">>>>,
    <<<<"v","o","l","l","e","y","b","a","l","l">>, <<"V","o","l","l","e","y","b","a","l","l">>>>,
    <<<<"s","k","a","t","e","b","o","a","r","d","i","n","g">>, <<"S","k","a","t","e","b","o","a","r","d","i","n","g">>>>,
    <<<<"s","u","r","f","i","n","g">>, <<"S","u","r","f","i","n","g">>>>,
    <<<<"s","n","o","w","b","o","a","r","d","i","n","g">>, <<"S","n","o","w","b","o","a","r","d","i","n","g">>>>,
    <<<<"c","h","e","s","s">>, <<"C","h","e","s","s">>>>,
    <<<<"f","o","r","m","u","l","a"," ","o","n","e">>, <<"F","o","r","m","u","l","a"," ","1">>>>,
    <<<<"f","o","r","m","u","l","a"," ","o","n","e"," ","r","a","c","i","n","g">>, <<"F","o","r","m","u","l","a"," ","1">>>>,
    <<<<"k","a","r","t"," ","r","a","c","i","n","g">>, <<"M","o","t","o","r","s","p","o","r","t">>>>,
    <<<<"a","u","t","o"," ","r","a","c","i","n","g">>, <<"M","o","t","o","r","s","p","o","r","t">>>>,
    <<<<"m","o","t","o","r","c","y","c","l","e"," ","r","a","c","i","n","g">>, <<"M","o","t","o","r","s","p","o","r","t">>>>,
    <<<<"r","a","l","l","y","i","n","g">>, <<"M","o","t","o","r","s","p","o","r","t">>>>,
    <<<<"a","l","p","i","n","e"," ","s","k","i","i","n","g">>, <<"S","k","i","i","n","g">>>>,
    <<<<"f","i","g","u","r","e"," ","s","k","a","t","i","n","g">>, <<"F","i","g","u","r","e"," ","S","k","a","t","i","n","g">>>>,
    <<<<"b","a","d","m","i","n","t","o","n">>, <<"B","a","d","m","i","n","t","o","n">>>>,
    <<<<"t","a","b","l","e"," ","t","e","n","n","i","s">>, <<"T","a","b","l","e"," ","T","e","n","n","i","s">>>>
    >>

\* _normalize_country, normalizations: raw country -> short form (399-409)
country_normalizations ==
    <<
    <<<<"U","n","i","t","e","d"," ","S","t","a","t","e","s"," ","o","f"," ","A","m","e","r","i","c","a">>, <<"U","S","A">>>>,
    <<<<"U","n","i","t","e","d"," ","S","t","a","t","e","s">>, <<"U","S","A">>>>,
    <<<<"U","n","i","t","e","d"," ","K","i","n","g","d","o","m">>, <<"U","K">>>>,
    <<<<"K","i","n","g","d","o","m"," ","o","f"," ","t","h","e"," ","N","e","t","h","e","r","l","a","n","d","s">>, <<"N","e","t","h","e","r","l","a","n","d","s">>>>,
    <<<<"P","e","o","p","l","e","'","s"," ","R","e","p","u","b","l","i","c"," ","o","f"," ","C","h","i","n","a">>, <<"C","h","i","n","a">>>>,
    <<<<"R","e","p","u","b","l","i","c"," ","o","f"," ","K","o","r","e","a">>, <<"S","o","u","t","h"," ","K","o","r","e","a">>>>,
    <<<<"D","e","m","o","c","r","a","t","i","c"," ","P","e","o","p","l","e","'","s"," ","R","e","p","u","b","l","i","c"," ","o","f"," ","K","o","r","e","a">>, <<"N","o","r","t","h"," ","K","o","r","e","a">>>>,
    <<<<"R","u","s","s","i","a","n"," ","F","e","d","e","r","a","t","i","o","n">>, <<"R","u","s","s","i","a">>>>,
    <<<<"C","z","e","c","h"," ","R","e","p","u","b","l","i","c">>, <<"C","z","e","c","h","i","a">>>>
    >>

\* _occupation_to_sport, mappings in dict (insertion) order (451-493)
mappings ==
    <<
    <<<<"f","o","o","t","b","a","l","l","e","r">>, <<"F","o","o","t","b","a","l","l">>>>,
    <<<<"a","s","s","o","c","i","a","t","i","o","n"," ","f","o","o","t","b","a","l","l"," ","p","l","a","y","e","r">>, <<"F","o","o","t","b","a","l","l">>>>,
    <<<<"s","o","c","c","e","r"," ","p","l","a","y","e","r">>, <<"F","o","o","t","b","a","l","l">>>>,
    <<<<"b","a","s","k","e","t","b","a","l","l"," ","p","l","a","y","e","r">>, <<"B","a","s","k","e","t","b","a","l","l">>>>,
    <<<<"t","e","n","n","i","s"," ","p","l","a","y","e","r">>, <<"T","e","n","n","i","s">>>>,
    <<<<"c","r","i","c","k","e","t","e","r">>, <<"C","r","i","c","k","e","t">>>>,
    <<<<"g","o","l","f","e","r">>, <<"G","o","l","f">>>>,
    <<<<"b","a","s","e","b","a","l","l"," ","p","l","a","y","e","r">>, <<"B","a","s","e","b","a","l","l">>>>,
    <<<<"i","c","e"," ","h","o","c","k","e","y"," ","p","l","a","y","e","r">>, <<"H","o","c","k","e","y">>>>,
    <<<<"f","i","e","l","d"," ","h","o","c","k","e","y"," ","p","l","a","y","e","r">>, <<"H","o","c","k","e","y">>>>,
    <<<<"s","w","i","m","m","e","r">>, <<"S","w","i","m","m","i","n","g">>>>,
    <<<<"s","p","r","i","n","t","e","r">>, <<"A","t","h","l","e","t","i","c","s">>>>,
    <<<<"m","a","r","a","t","h","o","n"," ","r","u","n","n","e","r">>, <<"A","t","h","l","e","t","i","c","s">>>>,
    <<<<"l","o","n","g","-","d","i","s","t","a","n","c","e"," ","r","u","n","n","e","r">>, <<"A","t","h","l","e","t","i","c","s">>>>,
    <<<<"t","r","a","c","k"," ","a","n","d"," ","f","i","e","l","d"," ","a","t","h","l","e","t","e">>, <<"A","t","h","l","e","t","i","c","s">>>>,
    <<<<"b","o","x","e","r">>, <<"B","o","x","i","n","g">>>>,
    <<<<"m","i","x","e","d"," ","m","a","r","t","i","a","l"," ","a","r","t","i","s","t">>, <<"M","M","A">>>>,
    <<<<"r","u","g","b","y"," ","p","l","a","y","e","r">>, <<"R","u","g","b","y">>>>,
    <<<<"r","u","g","b","y"," ","u","n","i","o","n"," ","p","l","a","y","e","r">>, <<"R","u","g","b","y">>>>,
    <<<<"c","y","c","l","i","s","t">>, <<"C","y","c","l","i","n","g">>>>,
    <<<<"r","a","c","i","n","g"," ","d","r","i","v","e","r">>, <<"M","o","t","o","r","s","p","o","r","t">>>>,
    <<<<"F","o","r","m","u","l","a"," ","O","n","e"," ","d","r","i","v","e","r">>, <<"F","o","r","m","u","l","a"," ","1">>>>,
    <<<<"g","y","m","n","a","s","t">>, <<"G","y","m","n","a","s","t","i","c","s">>>>,
    <<<<"v","o","l","l","e","y","b","a","l","l"," ","p","l","a","y","e","r">>, <<"V","o","l","l","e","y","b","a","l","l">>>>,
    <<<<"w","r","e","s","t","l","e","r">>, <<"W","r","e","s","t","l","i","n","g">>>>,
    <<<<"a","l","p","i","n","e"," ","s","k","i","e","r">>, <<"S","k","i","i","n","g">>>>,
    <<<<"f","i","g","u","r","e"," ","s","k","a","t","e","r">>, <<"S","k","a","t","i","n","g">>>>,
    <<<<"s","k","a","t","e","b","o","a","r","d","e","r">>, <<"S","k","a","t","e","b","o","a","r","d","i","n","g">>>>,
    <<<<"s","u","r","f","e","r">>, <<"S","u","r","f","i","n","g">>>>,
    <<<<"s","n","o","w","b","o","a","r","d","e","r">>, <<"S","n","o","w","b","o","a","r","d","i","n","g">>>>,
    <<<<"b","a","d","m","i","n","t","o","n"," ","p","l","a","y","e","r">>, <<"B","a","d","m","i","n","t","o","n">>>>,
    <<<<"t","a","b","l","e"," ","t","e","n","n","i","s"," ","p","l","a","y","e","r">>, <<"T","a","b","l","e"," ","T","e","n","n","i","s">>>>,
    <<<<"f","e","n","c","e","r">>, <<"F","e","n","c","i","n","g">>>>,
    <<<<"a","r","c","h","e","r">>, <<"A","r","c","h","e","r","y">>>>,
    <<<<"w","e","i","g","h","t","l","i","f","t","e","r">>, <<"W","e","i","g","h","t","l","i","f","t","i","n","g">>>>,
    <<<<"d","i","v","e","r">>, <<"D","i","v","i","n","g">>>>,
    <<<<"r","o","w","e","r">>, <<"R","o","w","i","n","g">>>>,
    <<<<"j","u","d","o","k","a">>, <<"J","u","d","o">>>>,
    <<<<"c","h","e","s","s"," ","p","l","a","y","e","r">>, <<"C","h","e","s","s">>>>,
    <<<<"e","s","p","o","r","t","s"," ","p","l","a","y","e","r">>, <<"E","s","p","o","r","t","s">>>>,
    <<<<"t","r","i","a","t","h","l","e","t","e">>, <<"T","r","i","a","t","h","l","o","n">>>>
    >>

\* _do_search, athlete_keywords (233-237)
athlete_keywords ==
    <<
    <<"p","l","a","y","e","r">>,
    <<"f","o","o","t","b","a","l","l","e","r">>,
    <<"b","a","s","k","e","t","b","a","l","l"," ","p","l","a","y","e","r">>,
    <<"t","e","n","n","i","s"," ","p","l","a","y","e","r">>,
    <<"a","t","h","l","e","t","e">>,
    <<"s","w","i","m","m","e","r">>,
    <<"b","o","x","e","r">>,
    <<"g","o","l","f","e","r">>,
    <<"c","y","c","l","i","s","t">>,
    <<"s","k","i","e","r">>,
    <<"r","u","n","n","e","r">>,
    <<"o","l","y","m","p","i","c">>,
    <<"c","h","a","m","p","i","o","n">>,
    <<"r","a","c","i","n","g"," ","d","r","i","v","e","r">>,
    <<"g","y","m","n","a","s","t">>,
    <<"v","o","l","l","e","y","b","a","l","l"," ","p","l","a","y","e","r">>,
    <<"c","r","i","c","k","e","t","e","r">>,
    <<"b","a","s","e","b","a","l","l"," ","p","l","a","y","e","r">>,
    <<"j","u","d","o","k","a">>,
    <<"c","h","e","s","s"," ","p","l","a","y","e","r">>,
    <<"w","r","e","s","t","l","e","r">>,
    <<"s","k","a","t","e","b","o","a","r","d","e","r">>,
    <<"s","u","r","f","e","r">>
    >>

\* _do_search, skip_keywords (240-242)
skip_keywords ==
    <<
    <<"r","i","v","a","l","r","y">>,
    <<"m","a","t","c","h">>,
    <<"t","o","u","r","n","a","m","e","n","t">>,
    <<"c","h","a","m","p","i","o","n","s","h","i","p">>,
    <<"g","a","m","e">>,
    <<"s","e","a","s","o","n">>,
    <<"t","e","a","m">>,
    <<"c","l","u","b">>,
    <<"s","t","a","d","i","u","m">>,
    <<"a","w","a","r","d">>,
    <<"r","e","c","o","r","d">>,
    <<"f","i","l","m">>,
    <<"s","o","n","g">>,
    <<"a","l","b","u","m">>,
    <<"b","o","o","k">>,
    <<"s","e","r","i","e","s">>,
    <<"e","p","i","s","o","d","e">>
    >>

\* _do_search, the inline nationality list of the second pass (268-270)
nationalities ==
    <<
    <<"a","m","e","r","i","c","a","n">>,
    <<"b","r","i","t","i","s","h">>,
    <<"f","r","e","n","c","h">>,
    <<"g","e","r","m","a","n">>,
    <<"s","p","a","n","i","s","h">>,
    <<"i","t","a","l","i","a","n">>,
    <<"b","r","a","z","i","l","i","a","n">>,
    <<"a","r","g","e","n","t","i","n","e">>,
    <<"j","a","p","a","n","e","s","e">>,
    <<"c","h","i","n","e","s","e">>,
    <<"r","u","s","s","i","a","n">>,
    <<"a","u","s","t","r","a","l","i","a","n">>,
    <<"c","a","n","a","d","i","a","n">>,
    <<"s","w","i","s","s">>,
    <<"d","u","t","c","h">>,
    <<"p","o","r","t","u","g","u","e","s","e">>
    >>

\* download_athletes.py OCCUPATIONS: the sport name of each queried occupation, in order (17-51)
OCCUPATIONS ==
    <<
    <<"F","o","o","t","b","a","l","l">>,
    <<"B","a","s","k","e","t","b","a","l","l">>,
    <<"T","e","n","n","i","s">>,
    <<"C","r","i","c","k","e","t">>,
    <<"G","o","l","f">>,
    <<"B","a","s","e","b","a","l","l">>,
    <<"A","t","h","l","e","t","i","c","s">>,
    <<"B","o","x","i","n","g">>,
    <<"H","o","c","k","e","y">>,
    <<"S","w","i","m","m","i","n","g">>,
    <<"M","o","t","o","r","s","p","o","r","t">>,
    <<"C","y","c","l","i","n","g">>,
    <<"R","u","g","b","y">>,
    <<"G","y","m","n","a","s","t","i","c","s">>,
    <<"V","o","l","l","e","y","b","a","l","l">>,
    <<"J","u","d","o">>,
    <<"C","h","e","s","s">>,
    <<"S","k","i","i","n","g">>,
    <<"M","M","A">>,
    <<"F","i","g","u","r","e"," ","S","k","a","t","i","n","g">>,
    <<"W","r","e","s","t","l","i","n","g">>,
    <<"B","a","d","m","i","n","t","o","n">>,
    <<"T","a","b","l","e"," ","T","e","n","n","i","s">>,
    <<"F","e","n","c","i","n","g">>,
    <<"A","r","c","h","e","r","y">>,
    <<"W","e","i","g","h","t","l","i","f","t","i","n","g">>,
    <<"D","i","v","i","n","g">>,
    <<"R","o","w","i","n","g">>,
    <<"S","k","a","t","e","b","o","a","r","d","i","n","g">>,
    <<"S","u","r","f","i","n","g">>,
    <<"S","n","o","w","b","o","a","r","d","i","n","g">>,
    <<"E","s","p","o","r","t","s">>,
    <<"T","r","i","a","t","h","l","o","n">>
    >>

\* get_supported_sports()[:-1], the sports listed for display (506-516, 535)
supported_sports ==
    <<
    <<"F","o","o","t","b","a","l","l">>,
    <<"B","a","s","k","e","t","b","a","l","l">>,
    <<"T","e","n","n","i","s">>,
    <<"C","r","i","c","k","e","t">>,
    <<"G","o","l","f">>,
    <<"B","a","s","e","b","a","l","l">>,
    <<"H","o","c","k","e","y">>,
    <<"S","w","i","m","m","i","n","g">>,
    <<"A","t","h","l","e","t","i","c","s">>,
    <<"B","o","x","i","n","g">>,
    <<"M","M","A">>,
    <<"R","u","g","b","y">>,
    <<"C","y","c","l","i","n","g">>,
    <<"F","o","r","m","u","l","a"," ","1">>,
    <<"M","o","t","o","r","s","p","o","r","t">>,
    <<"G","y","m","n","a","s","t","i","c","s">>,
    <<"V","o","l","l","e","y","b","a","l","l">>,
    <<"W","r","e","s","t","l","i","n","g">>,
    <<"S","k","i","i","n","g">>,
    <<"S","k","a","t","i","n","g">>,
    <<"S","k","a","t","e","b","o","a","r","d","i","n","g">>,
    <<"S","u","r","f","i","n","g">>,
    <<"S","n","o","w","b","o","a","r","d","i","n","g">>,
    <<"B","a","d","m","i","n","t","o","n">>,
    <<"T","a","b","l","e"," ","T","e","n","n","i","s">>,
    <<"F","e","n","c","i","n","g">>,
    <<"A","r","c","h","e","r","y">>,
    <<"W","e","i","g","h","t","l","i","f","t","i","n","g">>,
    <<"D","i","v","i","n","g">>,
    <<"R","o","w","i","n","g">>,
    <<"J","u","d","o">>,
    <<"C","h","e","s","s">>,
    <<"E","s","p","o","r","t","s">>,
    <<"T","r","i","a","t","h","l","o","n">>
    >>

----------------------------------------------------------------------------
(* Ingestion: download_athletes.py builds the key/value file,              *)
(* convert_to_sqlite.py copies it into the athletes table.                 *)
(* A SPARQL binding is [sport, itemLabel, countryLabel]; a missing label   *)
(* is the empty string, as row.get(...).get("value", "") gives.            *)

\* the rows query_occupation returns for one sport, in response order
query_occupation(sparql, sport_name) ==
    SelectSeq(sparql, LAMBDA b : b.sport = sport_name)

\* body of the inner loop of download_athletes (lines 93-108)
add_binding(athletes, sport_name, row) ==
    LET name == row.itemLabel
        country == row.countryLabel
        key == lower(name)
    IN  IF name = <<>> \/ startswith(name, <<"Q">>) THEN athletes
        ELSE IF \E a \in athletes : a.key = key THEN athletes
        ELSE athletes \cup
             {[key |-> key, name |-> name, sport |-> sport_name,
               country |-> IF startswith(country, <<"Q">>) THEN <<>> ELSE country]}

RECURSIVE add_bindings(_, _, _)
add_bindings(athletes, sport_name, results) ==
    IF results = <<>> THEN athletes
    ELSE add_bindings(add_binding(athletes, sport_name, Head(results)),
                      sport_name, Tail(results))

\* download_athletes: the outer loop over OCCUPATIONS, from entry i on
RECURSIVE download_from(_, _, _)
download_from(i, athletes, sparql) ==
    IF i > Len(OCCUPATIONS) THEN athletes
    ELSE download_from(i + 1,
            add_bindings(athletes, OCCUPATIONS[i], query_occupation(sparql, OCCUPATIONS[i])),
            sparql)

download_athletes(sparql) == download_from(1, {}, sparql)

\* convert(): one table row (key, name, sport, country) per entry of the file
convert(athletes) ==
    {[key |-> a.key, name |-> a.name, sport |-> a.sport, country |-> a.country] :
        a \in athletes}

\* the database file after both jobs ran on the given SPARQL results
built_db(sparql) == [state |-> "ok", rows |-> convert(download_athletes(sparql))]

\* no file at LOCAL_DB_FILE / a file sqlite3 cannot read
missing_db == [state |-> "missing", rows |-> {}]
corrupt_db == [state |-> "corrupt", rows |-> {}]

----------------------------------------------------------------------------
(* Normalizer (country) and Local Matcher *)

\* lookup_athlete's return values
NotFound == [kind |-> "None"]
Raised == [kind |-> "raised"]
Entity(sport, country, matched_name) ==
    [kind |-> "entity", sport |-> sport, country |-> country, matched_name |-> matched_name]

normalize_country_unchanged(country) == country
normalize_country(country) ==
    IF has_key(country_normalizations, country)
    THEN get(country_normalizations, country)
    ELSE country

\* the dict built from a fetched row (lines 122-127 and 154-159)
row_result(row) ==
    Entity(row.sport,
           IF row.country # <<>> THEN Some(normalize_country(row.country)) ELSE None,
           row.name)

on_sqlite_error_uncaught == Raised
\* the except clause of both functions: sqlite3.Error is swallowed, None returned
on_sqlite_error == NotFound

search_local_exact(d, name) ==
    LET key == strip(lower(name))
        hit == {row \in d.rows : row.key = key}
    IN  IF d.state = "missing" THEN NotFound
        ELSE IF d.state = "corrupt" THEN on_sqlite_error
        ELSE IF hit # {} THEN row_result(CHOOSE row \in hit : TRUE)
        ELSE NotFound

\* The rows the LIKE query can return: ORDER BY length(key) LIMIT 1 leaves the
\* choice among keys of equal least length to SQLite.
like_rows(d, key) ==
    LET hit == {row \in d.rows : like(row.key, <<"%", " ">> \o key)}
    IN  {row \in hit : \A other \in hit : Len(row.key) <= Len(other.key)}

\* _search_local_partial: the set of values it can return
search_local_partial(d, name) ==
    LET key == strip(lower(name))
    IN  IF d.state = "missing" THEN {NotFound}
        ELSE IF d.state = "corrupt" THEN {on_sqlite_error}
        ELSE IF like_rows(d, key) # {} THEN {row_result(row) : row \in like_rows(d, key)}
        ELSE {NotFound}

----------------------------------------------------------------------------
(* Sample SPARQL results the index is built from, and queries *)

Roger_Federer == <<"R","o","g","e","r"," ","F","e","d","e","r","e","r">>
Lionel_Messi == <<"L","i","o","n","e","l"," ","M","e","s","s","i">>

SparqlSample ==
    <<[sport |-> <<"F","o","o","t","b","a","l","l">>, itemLabel |-> <<"M","e","s","s","i">>, countryLabel |-> <<"Q","1","0","0","9">>],
      [sport |-> <<"F","o","o","t","b","a","l","l">>, itemLabel |-> <<"Q","u","i","n","c","y"," ","P","r","o","m","e","s">>,
       countryLabel |-> <<"K","i","n","g","d","o","m"," ","o","f"," ","t","h","e"," ","N","e","t","h","e","r","l","a","n","d","s">>],
      [sport |-> <<"F","o","o","t","b","a","l","l">>, itemLabel |-> <<"J","u","n","i","o","r"," ","L","i","o","n","e","l"," ","M","e","s","s","i">>, countryLabel |-> <<>>],
      [sport |-> <<"F","o","o","t","b","a","l","l">>, itemLabel |-> <<"A","n","o","t","h","e","r"," ","F","e","d","e","r","e","r">>, countryLabel |-> <<>>],
      [sport |-> <<"B","a","s","k","e","t","b","a","l","l">>, itemLabel |-> <<"Y","a","o"," ","M","i","n","g"," ">>,
       countryLabel |-> <<"P","e","o","p","l","e","'","s"," ","R","e","p","u","b","l","i","c"," ","o","f"," ","C","h","i","n","a">>],
      [sport |-> <<"T","e","n","n","i","s">>, itemLabel |-> Roger_Federer, countryLabel |-> <<"S","w","i","t","z","e","r","l","a","n","d">>],
      [sport |-> <<"T","e","n","n","i","s">>, itemLabel |-> <<"L","u","k","a","s"," ","F","e","d","e","r","e","r">>, countryLabel |-> <<"A","u","s","t","r","i","a">>],
      [sport |-> <<"G","o","l","f">>, itemLabel |-> <<"M","a","r","y"," ","J","a","n","e"," ","S","m","i","t","h">>,
       countryLabel |-> <<"U","n","i","t","e","d"," ","S","t","a","t","e","s"," ","o","f"," ","A","m","e","r","i","c","a">>],
      [sport |-> <<"G","o","l","f">>, itemLabel |-> <<"r","o","g","e","r"," ","f","e","d","e","r","e","r">>, countryLabel |-> <<"U","n","i","t","e","d"," ","S","t","a","t","e","s">>]>>

\* the bindings at the given positions, in order
pick(seq, positions) ==
    LET F[i \in 0..Len(seq)] ==
            IF i = 0 THEN <<>>
            ELSE IF i \in positions THEN Append(F[i - 1], seq[i]) ELSE F[i - 1]
    IN  F[Len(seq)]

LocalDbs ==
    {missing_db, corrupt_db} \cup
    {built_db(pick(SparqlSample, P)) : P \in SUBSET (1..Len(SparqlSample))}

LocalQueries ==
    {Roger_Federer, <<" "," ","R","O","G","E","R"," ","F","E","D","E","R","E","R"," ">>, <<"f","e","d","e","r","e","r">>, <<"F","e","d","e","r","e","r","\t">>, <<"f","e","_","e","r","e","r">>,
     <<"%">>, <<"s","m","i","t","h">>, <<"J","a","n","e"," ","S","m","i","t","h">>, <<"Y","a","o"," ","M","i","n","g">>, <<"Y","a","o"," ","M","i","n","g"," ">>, <<"m","e","s","s","i">>,
     <<"Q","u","i","n","c","y"," ","P","r","o","m","e","s">>, <<"n","o","b","o","d","y">>}

----------------------------------------------------------------------------
(* Normalizer (sport, occupation) *)

normalize_sport_unchanged(sport) == sport
normalize_sport_case_sensitive(sport) ==
    IF has_key(sport_normalizations, sport) THEN get(sport_normalizations, sport)
    ELSE title(sport)
normalize_sport(sport) ==
    IF has_key(sport_normalizations, lower(sport))
    THEN get(sport_normalizations, lower(sport))
    ELSE title(sport)

\* first entry of mappings, in dict order, whose key occurs in the occupation
first_mapping(occupation_lower) ==
    LET hits == {i \in 1..Len(mappings) : contains(lower(mappings[i][1]), occupation_lower)}
    IN  IF hits = {} THEN 0 ELSE CHOOSE i \in hits : \A j \in hits : i <= j


occupation_to_sport(occupation) ==
    LET occupation_lower == lower(occupation)
    IN  IF first_mapping(occupation_lower) # 0
        THEN Some(mappings[first_mapping(occupation_lower)][2])
        ELSE IF \/ contains(<<"p","l","a","y","e","r">>, occupation_lower)
                \/ contains(<<"a","t","h","l","e","t","e">>, occupation_lower)
        THEN Some(title(replace(occupation, <<" ","p","l","a","y","e","r">>, <<>>)))
        ELSE None

\* Python truth value of a str | None
truthy(opt) == opt.some /\ opt.val # <<>>

----------------------------------------------------------------------------
(* External Resolver.  wiki.net gives, per API action, what a request meets:  *)
(* "ok", "error" (requests.RequestException or a status other than 200) or    *)
(* "malformed" (a 200 response whose JSON is not an object).  wiki.items are  *)
(* the items of the service: [id, rank, names, label, description, P641,      *)
(* P106, P27], wiki.labels the English labels of the Q-ids used in claims.    *)

\* response.json().get(...) on a JSON value that is no object raises AttributeError
Malformed(net) == net = "malformed"

\* wbsearchentities: the items known under the term, best rank first, limit 5
RECURSIVE by_rank(_)
by_rank(items) ==
    IF items = {} THEN <<>>
    ELSE LET first == CHOOSE x \in items : \A y \in items : x.rank <= y.rank
         IN  <<first>> \o by_rank(items \ {first})

search_limit == 5

wbsearchentities(w, term) ==
    LET found == by_rank({x \in w.items : lower(term) \in x.names})
    IN  SubSeq(found, 1, IF Len(found) < search_limit THEN Len(found) ELSE search_limit)

\* result.get("description", "").lower()
description_of(candidate) ==
    IF candidate.description.some THEN lower(candidate.description.val) ELSE <<>>

\* result.get("label", search_term)
label_of(candidate, search_term) ==
    IF candidate.label.some THEN candidate.label.val ELSE search_term

skipped(candidate) ==
    \E i \in 1..Len(skip_keywords) : contains(skip_keywords[i], description_of(candidate))

is_athlete(candidate) ==
    \E i \in 1..Len(athlete_keywords) :
        contains(athlete_keywords[i], description_of(candidate))

is_person(candidate) ==
    \/ contains(<<"b","o","r","n">>, description_of(candidate))
    \/ \E i \in 1..Len(nationalities) :
        contains(nationalities[i], description_of(candidate))

\* least index of the set, 0 for the empty set: where a `for` loop over the
\* results first meets an accepted candidate
first_index(hits) ==
    IF hits = {} THEN 0 ELSE CHOOSE i \in hits : \A j \in hits : i <= j

first_pass_or_person(results) ==
    first_index({i \in 1..Len(results) :
        ~skipped(results[i]) /\ (is_athlete(results[i]) \/ is_person(results[i]))})
first_pass(results) ==
    first_index({i \in 1..Len(results) : ~skipped(results[i]) /\ is_athlete(results[i])})

second_pass(results) ==
    first_index({i \in 1..Len(results) : ~skipped(results[i]) /\ is_person(results[i])})

last_resort_unfiltered(results) == first_index(1..Len(results))
last_resort(results) ==
    first_index({i \in 1..Len(results) : ~skipped(results[i])})

\* the three passes of _do_search over a non-empty result list
select_candidate(results) ==
    IF first_pass(results) # 0 THEN first_pass(results)
    ELSE IF second_pass(results) # 0 THEN second_pass(results)
    ELSE last_resort(results)

\* _do_search: None, Raised or Some([entity_id, matched_name])
do_search(w, search_term) ==
    LET results == wbsearchentities(w, search_term)
        chosen == select_candidate(results)
    IN  IF w.net.search = "error" THEN None
        ELSE IF Malformed(w.net.search) THEN Raised
        ELSE IF results = <<>> THEN None
        ELSE IF chosen = 0 THEN None
        ELSE Some([entity_id |-> results[chosen].id,
                   matched_name |-> label_of(results[chosen], search_term)])

\* _search_entity, the list of terms: the name, then for each letter that is
\* doubled in name.lower(), in alphabet order, name.lower() with that double collapsed
has_double(name, c) == contains(<<c, c>>, lower(name))

RECURSIVE variations(_, _)
variations(name, i) ==
    IF i > Len(ascii_lowercase) THEN <<>>
    ELSE (IF has_double(name, ascii_lowercase[i])
          THEN <<replace(lower(name), <<ascii_lowercase[i], ascii_lowercase[i]>>,
                         <<ascii_lowercase[i]>>)>>
          ELSE <<>>) \o variations(name, i + 1)

search_terms_lowered(name) == <<lower(name)>> \o variations(name, 1)
search_terms(name) ==
    <<name>> \o
    (IF \E i \in 1..Len(ascii_lowercase) : has_double(name, ascii_lowercase[i])
     THEN variations(name, 1) ELSE <<>>)

\* A request made while the entity is expanded: ctx = [cache, reqs, run] is
\* threaded through, each function returns [val, cache, reqs, run].
Ret(val, ctx) == [val |-> val, cache |-> ctx.cache, reqs |-> ctx.reqs, run |-> ctx.run]
Sent(ctx, action, arg) ==
    [cache |-> ctx.cache, run |-> ctx.run,
     reqs |-> Append(ctx.reqs, [action |-> action, arg |-> arg, run |-> ctx.run])]

\* _get_entity: None, Raised or Some(item)
get_entity(w, ctx, entity_id) ==
    LET found == {x \in w.items : x.id = entity_id}
        sent == Sent(ctx, "wbgetentities", entity_id)
    IN  IF w.net.entity = "error" THEN Ret(None, sent)
        ELSE IF Malformed(w.net.entity) THEN Ret(Raised, sent)
        ELSE IF found = {} THEN Ret(None, sent)
        ELSE Ret(Some(CHOOSE x \in found : TRUE), sent)

\* _get_label: None, Raised or Some(label); a non-empty label is cached
get_label(w, ctx, entity_id) ==
    LET sent == Sent(ctx, "labels", entity_id)
        en_label == IF entity_id \in DOMAIN w.labels THEN Some(w.labels[entity_id]) ELSE None
    IN  IF entity_id \in DOMAIN ctx.cache THEN Ret(Some(ctx.cache[entity_id]), ctx)
        ELSE IF w.net.label = "error" THEN Ret(None, sent)
        ELSE IF Malformed(w.net.label) THEN Ret(Raised, sent)
        ELSE IF truthy(en_label)
             THEN Ret(en_label, [cache |-> (entity_id :> en_label.val) @@ sent.cache,
                                 reqs |-> sent.reqs, run |-> sent.run])
             ELSE Ret(en_label, sent)

\* _extract_sport, the loop over the P106 claims from claim i on
RECURSIVE occupation_sport(_, _, _, _)
occupation_sport(w, ctx, claims, i) ==
    IF i > Len(claims) THEN Ret(None, ctx)
    ELSE IF ~claims[i].some THEN occupation_sport(w, ctx, claims, i + 1)
    ELSE LET occupation == get_label(w, ctx, claims[i].val)
             sport == occupation_to_sport(occupation.val.val)
         IN  IF occupation.val = Raised THEN occupation
             ELSE IF truthy(occupation.val) /\ truthy(sport) THEN Ret(sport, occupation)
             ELSE occupation_sport(w, occupation, claims, i + 1)

extract_sport_by_occupation(w, ctx, item) == occupation_sport(w, ctx, item.P106, 1)
\* _extract_sport: None, Raised or Some(sport)
extract_sport(w, ctx, item) ==
    LET has_id == item.P641 # <<>> /\ item.P641[1].some
        sport == get_label(w, ctx, item.P641[1].val)
    IN  IF has_id /\ sport.val = Raised THEN sport
        ELSE IF has_id /\ truthy(sport.val)
             THEN Ret(Some(normalize_sport(sport.val.val)), sport)
        ELSE occupation_sport(w, IF has_id THEN sport ELSE ctx, item.P106, 1)

\* _extract_country: None, Raised or Some(country)
extract_country(w, ctx, item) ==
    LET has_id == item.P27 # <<>> /\ item.P27[1].some
        country == get_label(w, ctx, item.P27[1].val)
    IN  IF ~has_id THEN Ret(None, ctx)
        ELSE IF country.val = Raised THEN country
        ELSE IF truthy(country.val)
             THEN Ret(Some(normalize_country(country.val.val)), country)
        ELSE Ret(None, country)

\* _lookup_via_api from line 174 on, for the search result found
expand_entity(w, ctx, found) ==
    LET entity_data == get_entity(w, ctx, found.entity_id)
        sport == extract_sport(w, entity_data, entity_data.val.val)
        country == extract_country(w, sport, entity_data.val.val)
    IN  IF entity_data.val = Raised THEN entity_data
        ELSE IF ~entity_data.val.some THEN Ret(NotFound, entity_data)
        ELSE IF sport.val = Raised THEN sport
        ELSE IF ~truthy(sport.val) THEN Ret(NotFound, sport)
        ELSE IF country.val = Raised THEN country
        ELSE Ret(Entity(sport.val.val, country.val, found.matched_name), country)


----------------------------------------------------------------------------
(* Initial values of the state outside the resolution pipeline *)

\* no script run is inside _get_label
NoGetters == <<>>
\* no room document under rooms/<room_code>: get_room_data returns {}
NoRoom ==
    [password_hash |-> None, creator |-> None, created_at |-> None,
     athletes |-> <<>>, players |-> <<>>]
\* no script run has been started
NoSessions == [run |-> <<>>, submitted |-> 0, failed |-> 0]

----------------------------------------------------------------------------
(* Rarity scorer (src/firebase_store.py) *)

\* an entry of a room's collection
Athlete(athlete, sport, country, added_by, challenge_bonus) ==
    [name |-> athlete, sport |-> sport, country |-> country, matched_name |-> athlete,
     added_by |-> added_by, challenge_bonus |-> challenge_bonus]

\* sum(1 for a in athletes if a.get(field) == value)
count_of(athletes, field, value) ==
    Cardinality({i \in 1..Len(athletes) : athletes[i][field] = value})

pct_lt(count, total, bound) == 100 * count < bound * total
\* count / total * 100 <= bound.  The quotient and the product are IEEE
\* doubles; for every total up to 2000 the comparison with 2, 5, 15 and 30
\* comes out as in exact arithmetic.
pct_le(count, total, bound) == 100 * count <= bound * total

calculate_athlete_points(sport, country, athletes) ==
    LET total == IF Len(athletes) = 0 THEN 1 ELSE Len(athletes)
        sport_count == count_of(athletes, "sport", sport)
        sport_bonus ==
            IF pct_le(sport_count, total, 2) THEN 4
            ELSE IF pct_le(sport_count, total, 5) THEN 3
            ELSE IF pct_le(sport_count, total, 15) THEN 2
            ELSE IF pct_le(sport_count, total, 30) THEN 1
            ELSE 0
        country_count == count_of(athletes, "country", country)
        country_bonus ==
            IF ~truthy(country) THEN 0
            ELSE IF pct_le(country_count, total, 2) THEN 2
            ELSE IF pct_le(country_count, total, 5) THEN 1
            ELSE 0
    IN  [total_pts |-> 1 + sport_bonus + country_bonus,
         sport_bonus |-> sport_bonus, country_bonus |-> country_bonus]
----------------------------------------------------------------------------
(* Sample contents of the Wikidata service *)

Item(id, rank, names, label, description, P641, P106, P27) ==
    [id |-> id, rank |-> rank, names |-> names, label |-> label,
     description |-> description, P641 |-> P641, P106 |-> P106, P27 |-> P27]

Q_messi ==
    Item("Q615", 2, {<<"l","i","o","n","e","l"," ","m","e","s","s","i">>}, Some(Lionel_Messi),
         Some(<<"A","r","g","e","n","t","i","n","e"," ","f","o","o","t","b","a","l","l","e","r"," ","(","b","o","r","n"," ","1","9","8","7",")">>),
         <<Some("Q2736")>>, <<Some("Q937857")>>, <<Some("Q414")>>)

Q_match ==
    Item("Q9001", 1, {<<"l","i","o","n","e","l"," ","m","e","s","s","i">>, <<"m","e","s","s","i">>}, Some(<<"L","i","o","n","e","l"," ","M","e","s","s","i"," ","v","s"," ","F","r","a","n","c","e">>),
         Some(<<"2","0","2","2"," ","f","o","o","t","b","a","l","l"," ","m","a","t","c","h">>), <<>>, <<>>, <<>>)

Q_federer ==
    Item("Q1426", 3, {<<"r","o","g","e","r"," ","f","e","d","e","r","e","r">>, <<"f","e","d","e","r","e","r">>}, Some(Roger_Federer),
         Some(<<"S","w","i","s","s"," ","t","e","n","n","i","s"," ","p","l","a","y","e","r">>),
         <<>>, <<Some("Q43845"), None, Some("Q10833314")>>, <<Some("Q39")>>)

Q_smith ==
    Item("Q9002", 4, {<<"j","a","n","e"," ","s","m","i","t","h">>, <<"s","m","i","t","h">>}, Some(<<"J","a","n","e"," ","S","m","i","t","h">>),
         Some(<<"A","m","e","r","i","c","a","n"," ","c","u","r","l","e","r">>),
         <<Some("Q136851")>>, <<>>, <<Some("Q30")>>)

Q_trophy ==
    Item("Q9003", 5, {<<"j","e","f","f"," ","h","o","o","g">>}, Some(<<"J","e","f","f"," ","H","o","o","g"," ","T","r","o","p","h","y">>),
         Some(<<"a","n","n","u","a","l"," ","s","p","o","r","t","s"," ","a","w","a","r","d">>), <<>>, <<>>, <<>>)

Q_hogg ==
    Item("Q9004", 6, {<<"j","e","f","f"," ","h","o","g","g">>}, None, None,
         <<Some("Q9005")>>, <<Some("Q43845"), Some("Q13365117")>>, <<>>)

AllItems == {Q_messi, Q_match, Q_federer, Q_smith, Q_trophy, Q_hogg}

\* English labels of the Q-ids the claims point to; Q9005 has no English label
Labels ==
    ("Q2736" :> <<"a","s","s","o","c","i","a","t","i","o","n"," ","f","o","o","t","b","a","l","l">>) @@
    ("Q937857" :> <<"a","s","s","o","c","i","a","t","i","o","n"," ","f","o","o","t","b","a","l","l"," ","p","l","a","y","e","r">>) @@
    ("Q414" :> <<"A","r","g","e","n","t","i","n","a">>) @@
    ("Q43845" :> <<"b","u","s","i","n","e","s","s","p","e","r","s","o","n">>) @@
    ("Q10833314" :> <<"t","e","n","n","i","s"," ","p","l","a","y","e","r">>) @@
    ("Q39" :> <<"S","w","i","t","z","e","r","l","a","n","d">>) @@
    ("Q136851" :> <<"c","u","r","l","i","n","g">>) @@
    ("Q30" :> <<"U","n","i","t","e","d"," ","S","t","a","t","e","s"," ","o","f"," ","A","m","e","r","i","c","a">>) @@
    ("Q13365117" :> <<"h","a","n","d","b","a","l","l"," ","p","l","a","y","e","r">>)

Net(search, entity, label) == [search |-> search, entity |-> entity, label |-> label]

Worlds ==
    {[net |-> Net("ok", "ok", "ok"), items |-> items, labels |-> Labels] :
        items \in {AllItems, AllItems \ {Q_messi}, {}}}
    \cup
    {[net |-> net, items |-> AllItems, labels |-> Labels] :
        net \in {Net("error", "ok", "ok"), Net("ok", "error", "ok"),
                 Net("ok", "ok", "error"), Net("malformed", "ok", "ok")}}

\* the index with every sample binding, without the row "Messi", and without
\* the rows "Messi" and "Junior Lionel Messi"
PipelineDbs ==
    {missing_db, corrupt_db, built_db(SparqlSample),
     built_db(pick(SparqlSample, 2..Len(SparqlSample))),
     built_db(pick(SparqlSample, {2} \cup (4..Len(SparqlSample))))}

Names ==
    {<<"m","e","s","s","i">>, Lionel_Messi, <<"f","e","d","e","r","e","r">>, <<" ","F","e","d","e","r","r","e","r">>, <<"J","a","n","e"," ","S","m","i","t","h">>,
     <<"J","e","f","f"," ","H","o","o","g","g">>, <<"f","e","_","e","r","e","r">>, <<"M","a","r","y"," ","J","a","n","e"," ","S","M","I","T","H"," ">>}

\* distinct calls of lookup_athlete whose outcome is kept in history
MaxCalls == 2

----------------------------------------------------------------------------
(* Resolution Orchestrator: lookup_athlete, one action per strategy call   *)
(* and per HTTP request of _search_entity.                                 *)

name == strip(athlete_name)

is_single_word_inverted == contains(<<" ">>, name)
is_single_word == ~contains(<<" ">>, name)

full_name_is_input == name
full_name == get(FAMOUS_ATHLETES, lower(name))

NoApi == [phase |-> "none"]
\* entry of _lookup_via_api / _search_entity: the list of terms, none tried yet
\* run is the place this _lookup_via_api call takes among the strategy calls
api_start(n, run) ==
    [phase |-> "search", name |-> n, run |-> run, terms |-> search_terms(n), i |-> 1]

Called(log, fn, arg, res) == Append(log, [fn |-> fn, arg |-> arg, res |-> res])

after_api_gives_up(at) == "done"
\* where lookup_athlete continues after _lookup_via_api returned None
after_api(at) ==
    CASE at = "alias_api" -> "exact"
      [] at = "single_api" -> "single_partial"
      [] at = "multi_api" -> "done"

returns_on_exception_only(res) == res.kind = "raised"
\* `if result: return result` after a strategy; an exception leaves lookup_athlete
returns(res) == res.kind # "None"

Init ==
    /\ db \in PipelineDbs
    /\ wiki \in Worlds
    /\ label_cache = <<>>
    /\ pc = "idle"
    /\ athlete_name = <<>>
    /\ api = NoApi
    /\ calls = <<>>
    /\ requests = <<>>
    /\ result = NotFound
    /\ history = {}
    /\ local_call = [fn |-> "none"]
    /\ getters = NoGetters
    /\ room = NoRoom
    /\ sessions = NoSessions

\* lookup_athlete(n), lines 65-69
Lookup(n) ==
    /\ pc = "idle"
    /\ Cardinality(history) < MaxCalls
    /\ athlete_name' = n
    /\ pc' = IF has_key(FAMOUS_ATHLETES, lower(strip(n))) THEN "alias_exact" ELSE "exact"
    /\ calls' = <<>>
    /\ requests' = <<>>
    /\ result' = NotFound
    /\ UNCHANGED <<getters, room, sessions>>
    /\ UNCHANGED <<db, wiki, label_cache, api, history, local_call>>

\* lines 70-74
AliasExact ==
    /\ pc = "alias_exact"
    /\ LET res == search_local_exact(db, full_name)
       IN  /\ calls' = Called(calls, "exact", full_name, res)
           /\ IF returns(res)
              THEN result' = res /\ pc' = "done" /\ api' = api
              ELSE result' = result /\ pc' = "alias_api" /\ api' = api_start(full_name, Len(calls) + 2)
    /\ UNCHANGED <<getters, room, sessions>>
    /\ UNCHANGED <<db, wiki, label_cache, athlete_name, requests, history, local_call>>

\* lines 80-82 and the branch of line 86
Exact ==
    /\ pc = "exact"
    /\ LET res == search_local_exact(db, name)
       IN  /\ calls' = Called(calls, "exact", name, res)
           /\ IF returns(res)
              THEN result' = res /\ pc' = "done" /\ api' = api
              ELSE IF is_single_word
              THEN result' = result /\ pc' = "single_api" /\ api' = api_start(name, Len(calls) + 2)
              ELSE result' = result /\ pc' = "multi_partial" /\ api' = api
    /\ UNCHANGED <<getters, room, sessions>>
    /\ UNCHANGED <<db, wiki, label_cache, athlete_name, requests, history, local_call>>

\* return of _lookup_via_api to lines 76, 88 or 102
ApiReturn(res) ==
    /\ calls' = Called(calls, "api", api.name, res)
    /\ api' = NoApi
    /\ IF returns(res) THEN result' = res /\ pc' = "done"
       ELSE /\ result' = result
            /\ pc' = after_api(pc)

\* one iteration of the loop of _search_entity (lines 200-212)
DoSearch ==
    /\ pc \in {"alias_api", "single_api", "multi_api"}
    /\ api.phase = "search"
    /\ requests' = Append(requests, [action |-> "wbsearchentities", arg |-> api.terms[api.i],
                                      run |-> api.run])
    /\ LET found == do_search(wiki, api.terms[api.i])
       IN  IF found = Raised THEN ApiReturn(Raised)
           ELSE IF found.some
           THEN /\ api' = [phase |-> "expand", name |-> api.name, run |-> api.run,
                        found |-> found.val]
                /\ UNCHANGED <<pc, calls, result>>
           ELSE IF api.i < Len(api.terms)
           THEN /\ api' = [api EXCEPT !.i = api.i + 1]
                /\ UNCHANGED <<pc, calls, result>>
           ELSE ApiReturn(NotFound)
    /\ UNCHANGED <<getters, room, sessions>>
    /\ UNCHANGED <<db, wiki, label_cache, athlete_name, history, local_call>>

\* _lookup_via_api, lines 172-186
ExpandEntity ==
    /\ pc \in {"alias_api", "single_api", "multi_api"}
    /\ api.phase = "expand"
    /\ LET e == expand_entity(wiki, [cache |-> label_cache, reqs |-> requests, run |-> api.run],
                                api.found)
       IN  /\ label_cache' = e.cache
           /\ requests' = e.reqs
           /\ ApiReturn(e.val)
    /\ UNCHANGED <<getters, room, sessions>>
    /\ UNCHANGED <<db, wiki, athlete_name, history, local_call>>

\* lines 92-94
SinglePartial ==
    /\ pc = "single_partial"
    /\ \E res \in search_local_partial(db, name) :
        /\ calls' = Called(calls, "partial", name, res)
        /\ result' = IF returns(res) THEN res ELSE result
    /\ pc' = "done"
    /\ UNCHANGED <<getters, room, sessions>>
    /\ UNCHANGED <<db, wiki, label_cache, athlete_name, api, requests, history, local_call>>

\* lines 97-99
MultiPartial ==
    /\ pc = "multi_partial"
    /\ \E res \in search_local_partial(db, name) :
        /\ calls' = Called(calls, "partial", name, res)
        /\ IF returns(res)
           THEN result' = res /\ pc' = "done" /\ api' = api
           ELSE result' = result /\ pc' = "multi_api" /\ api' = api_start(name, Len(calls) + 2)
    /\ UNCHANGED <<getters, room, sessions>>
    /\ UNCHANGED <<db, wiki, label_cache, athlete_name, requests, history, local_call>>

\* lookup_athlete returns (or the exception leaves it) to its caller
Return ==
    /\ pc = "done"
    /\ history' = history \cup {[name |-> athlete_name, res |-> result, calls |-> calls]}
    /\ pc' = "idle"
    /\ UNCHANGED <<getters, room, sessions>>
    /\ UNCHANGED <<db, wiki, label_cache, athlete_name, api, calls, requests, result,
                   local_call>>

Next ==
    \/ \E n \in Names : Lookup(n)
    \/ AliasExact
    \/ Exact
    \/ DoSearch
    \/ ExpandEntity
    \/ SinglePartial
    \/ MultiPartial
    \/ Return

Spec == Init /\ [][Next]_vars

----------------------------------------------------------------------------
(* The Local Matcher called directly, on every index the sample bindings give *)

InitLocal ==
    /\ db \in LocalDbs
    /\ wiki = [net |-> Net("ok", "ok", "ok"), items |-> {}, labels |-> <<>>]
    /\ label_cache = <<>>
    /\ pc = "idle"
    /\ athlete_name = <<>>
    /\ api = NoApi
    /\ calls = <<>>
    /\ requests = <<>>
    /\ result = NotFound
    /\ history = {}
    /\ local_call = [fn |-> "none"]
    /\ getters = NoGetters
    /\ room = NoRoom
    /\ sessions = NoSessions

SearchLocalExact(q) ==
    /\ local_call' = [fn |-> "exact", arg |-> q, res |-> search_local_exact(db, q)]
    /\ UNCHANGED <<getters, room, sessions>>
    /\ UNCHANGED <<db, wiki, label_cache, pc, athlete_name, api, calls, requests, result,
                   history>>

SearchLocalPartial(q) ==
    /\ \E res \in search_local_partial(db, q) :
        local_call' = [fn |-> "partial", arg |-> q, res |-> res]
    /\ UNCHANGED <<getters, room, sessions>>
    /\ UNCHANGED <<db, wiki, label_cache, pc, athlete_name, api, calls, requests, result,
                   history>>

NextLocal ==
    \/ \E q \in LocalQueries : SearchLocalExact(q)
    \/ \E q \in LocalQueries : SearchLocalPartial(q)

SpecLocal == InitLocal /\ [][NextLocal]_vars

----------------------------------------------------------------------------
(* Vocabulary of the claims, stated on the logs and the inputs alone *)

Trimmed == strip(athlete_name)
HasSpace(s) == \E i \in 1..Len(s) : s[i] = " "
IsAlias(s) == \E i \in 1..Len(FAMOUS_ATHLETES) : FAMOUS_ATHLETES[i][1] = lower(strip(s))
Canonical(s) ==
    FAMOUS_ATHLETES[CHOOSE i \in 1..Len(FAMOUS_ATHLETES) :
                        FAMOUS_ATHLETES[i][1] = lower(strip(s))][2]
Absent == [kind |-> "None"]
IsEntity(r) == r.kind = "entity"
Finished == pc = "done"

\* strategy calls spent on the alias's canonical name before the original input
AliasCalls == IF IsAlias(athlete_name) THEN 2 ELSE 0

\* C1: after the exact match on the input missed, a single-token input runs
\* the external resolver and then suffixMatch, an input with a space runs
\* suffixMatch and then the external resolver; the second of the two runs
\* only after the first returned absent, and no search request has been
\* sent while suffixMatch of a multi-token input is still to run.
C1_StrategyOrder ==
    LET order == IF HasSpace(Trimmed) THEN <<"exact", "partial", "api">>
                 ELSE <<"exact", "api", "partial">>
    IN  /\ Len(calls) <= AliasCalls + 3
        /\ \A i \in 1..Len(calls) :
            i > AliasCalls =>
                /\ calls[i].fn = order[i - AliasCalls]
                /\ calls[i].arg = Trimmed
                /\ i > AliasCalls + 1 => calls[i - 1].res = Absent
        /\ (Finished /\ result = Absent) => Len(calls) = AliasCalls + 3
        /\ pc = "multi_partial" => \A i \in 1..Len(requests) : requests[i].run <= AliasCalls

C1_Witness ==
    /\ Finished
    /\ HasSpace(Trimmed)
    /\ Len(calls) = 3
    /\ calls[2].fn = "partial" /\ calls[2].res = Absent
    /\ calls[3].fn = "api" /\ IsEntity(calls[3].res)
    /\ result = calls[3].res

\* C2 as stated: whenever an exact match hits, the call returns that row at
\* once and has performed no external request and no suffixMatch.
C2_ExactHitWithoutRequests ==
    \A i \in 1..Len(calls) :
        (calls[i].fn = "exact" /\ IsEntity(calls[i].res)) =>
            /\ i = Len(calls) /\ pc \in {"done", "idle"} /\ result = calls[i].res
            /\ \A j \in 1..Len(calls) : calls[j].fn # "partial"
            /\ requests = <<>>

\* C2 amended: an exact hit ends the call with that row and without any
\* suffixMatch; requests were sent in the call only when the input is an
\* alias key, the hit is on the original input, and they belong to the
\* external resolution of the canonical name, which returned absent.
C2_ExactHitReturnsAtOnce ==
    \A i \in 1..Len(calls) :
        (calls[i].fn = "exact" /\ IsEntity(calls[i].res)) =>
            /\ i = Len(calls) /\ pc \in {"done", "idle"} /\ result = calls[i].res
            /\ \A j \in 1..Len(calls) : calls[j].fn # "partial"
            /\ requests # <<>> =>
                /\ IsAlias(athlete_name) /\ i = 3
                /\ calls[2] = [fn |-> "api", arg |-> Canonical(athlete_name), res |-> Absent]
                /\ \A j \in 1..Len(requests) : requests[j].run = 2

C2_Witness ==
    /\ Finished
    /\ Len(calls) = 3
    /\ calls[3].fn = "exact" /\ IsEntity(calls[3].res)
    /\ requests # <<>>

\* the local index has no row under the lowercased, trimmed name
NoExactKey(s) == \A row \in db.rows : row.key # lower(strip(s))

\* a completed call shows the external resolver resolving the name
SeenResolved(s) ==
    \E h \in history : \E i \in 1..Len(h.calls) :
        h.calls[i].fn = "api" /\ h.calls[i].arg = s /\ IsEntity(h.calls[i].res)

\* no stored key ends with a space followed by the lowercased, trimmed name
NoSuffixKey(s) ==
    \A row \in db.rows :
        LET suffix == <<" ">> \o lower(strip(s))
        IN  ~(Len(row.key) >= Len(suffix) /\
              SubSeq(row.key, Len(row.key) - Len(suffix) + 1, Len(row.key)) = suffix)

\* C3 as stated: for an alias key k with canonical name F, neither an exact
\* key of the index, and F resolvable externally, lookup_athlete(k) and
\* lookup_athlete(F) return the same entity whatever else the index holds.
C3_AliasSameAsFullName ==
    \A hk \in history : \A hf \in history :
        (/\ IsAlias(hk.name) /\ hf.name = Canonical(hk.name)
         /\ NoExactKey(hk.name) /\ NoExactKey(hf.name)
         /\ SeenResolved(hf.name))
        => hk.res = hf.res

\* C3 amended: the same, for an index in which moreover no key ends with a
\* space followed by the lowercased F (suffixMatch(F) is absent).
C3_AliasSameAsFullNameNoSuffix ==
    \A hk \in history : \A hf \in history :
        (/\ IsAlias(hk.name) /\ hf.name = Canonical(hk.name)
         /\ NoExactKey(hk.name) /\ NoExactKey(hf.name)
         /\ SeenResolved(hf.name)
         /\ NoSuffixKey(hf.name))
        => hk.res = hf.res

C3_Witness ==
    \E hk \in history : \E hf \in history :
        /\ IsAlias(hk.name) /\ hf.name = Canonical(hk.name) /\ hf.name # hk.name
        /\ NoExactKey(hk.name) /\ NoExactKey(hf.name) /\ NoSuffixKey(hf.name)
        /\ db.rows # {}
        /\ SeenResolved(hf.name)
        /\ IsEntity(hk.res) /\ hk.res = hf.res

\* C4: when the input is an alias key and its canonical name resolves
\* neither locally nor externally, the call goes on with the original input:
\* exact match, then the external resolver, then suffixMatch, each only
\* after the one before returned absent; it returns absent only after all
\* three did.
C4_AliasFallsThrough ==
    (/\ IsAlias(athlete_name)
     /\ Len(calls) >= 2
     /\ calls[1] = [fn |-> "exact", arg |-> Canonical(athlete_name), res |-> Absent]
     /\ calls[2] = [fn |-> "api", arg |-> Canonical(athlete_name), res |-> Absent])
    => /\ pc # "idle" /\ ~Finished => pc \in {"exact", "single_api", "single_partial"}
       /\ Finished => Len(calls) >= 3
       /\ \A i \in 3..Len(calls) :
            /\ calls[i].fn = <<"exact", "api", "partial">>[i - 2]
            /\ calls[i].arg = Trimmed
            /\ i > 3 => calls[i - 1].res = Absent
       /\ Len(calls) <= 5
       /\ (Finished /\ result = Absent) =>
            /\ Len(calls) = 5
            /\ \A i \in 3..5 : calls[i].res = Absent

C4_Witness ==
    /\ Finished
    /\ IsAlias(athlete_name)
    /\ Len(calls) = 5
    /\ calls[2].fn = "api" /\ calls[2].res = Absent
    /\ calls[4].fn = "api" /\ calls[4].res = Absent
    /\ calls[5].fn = "partial" /\ IsEntity(calls[5].res)
    /\ result = calls[5].res

\* the sports named by the tables of the code: the values of the synonym
\* table, of the occupation table, and the sports of the ingestion job
SportVocabulary ==
    {sport_normalizations[i][2] : i \in 1..Len(sport_normalizations)}
    \cup {mappings[i][2] : i \in 1..Len(mappings)}
    \cup {OCCUPATIONS[i] : i \in 1..Len(OCCUPATIONS)}
    \cup {supported_sports[i] : i \in 1..Len(supported_sports)}

\* C5 as stated: the sport of every result is in the fixed sport vocabulary.
C5_SportInVocabulary ==
    IsEntity(result) => result.sport \in SportVocabulary

InSynonymTable(label) ==
    \E i \in 1..Len(sport_normalizations) : sport_normalizations[i][1] = lower(label)
InOccupationTable(label) ==
    \E i \in 1..Len(mappings) : contains(lower(mappings[i][1]), lower(label))

\* the sports the two fallbacks can make of a label of the service
FallbackSports ==
    {title(wiki.labels[q]) : q \in {x \in DOMAIN wiki.labels : ~InSynonymTable(wiki.labels[x])}}
    \cup
    {title(replace(wiki.labels[q], <<" ","p","l","a","y","e","r">>, <<>>)) :
        q \in {x \in DOMAIN wiki.labels :
                /\ ~InOccupationTable(wiki.labels[x])
                /\ \/ contains(<<"p","l","a","y","e","r">>, lower(wiki.labels[x]))
                   \/ contains(<<"a","t","h","l","e","t","e">>, lower(wiki.labels[x]))}}

\* C5 amended: the sport of every result is non-empty and is in the
\* vocabulary, except that a result of the external resolver may carry the
\* title-cased label of the sport claim when the synonym table lacks it, or
\* the title-cased occupation label without " player" when the occupation
\* table has no entry for it and it contains "player" or "athlete".
C5_SportInVocabularyOrFallback ==
    IsEntity(result) =>
        /\ result.sport # <<>>
        /\ \/ result.sport \in SportVocabulary
           \/ /\ calls[Len(calls)].fn = "api"
              /\ result.sport \in FallbackSports

C5_Witness ==
    /\ Finished /\ IsEntity(result)
    /\ result.sport \notin SportVocabulary
    /\ result.sport = title(<<"c","u","r","l","i","n","g">>)

RawCountryForms == {country_normalizations[i][1] : i \in 1..Len(country_normalizations)}

\* C6: the country of every result is absent or a non-empty normalized
\* country, never a raw alias form of the country table, on the local and
\* on the external path; a local row's country is the normalized form of
\* the country stored in the row.
C6_CountryNormalized ==
    /\ IsEntity(result) =>
        \/ result.country = None
        \/ /\ result.country.some
           /\ result.country.val # <<>>
           /\ result.country.val \notin RawCountryForms
    /\ \A i \in 1..Len(calls) :
        (calls[i].fn \in {"exact", "partial"} /\ IsEntity(calls[i].res)) =>
            \E row \in db.rows :
                /\ row.name = calls[i].res.matched_name
                /\ \/ row.country = <<>> /\ calls[i].res.country = None
                   \/ /\ row.country \in RawCountryForms
                      /\ calls[i].res.country.some
                      /\ \E k \in 1..Len(country_normalizations) :
                            /\ country_normalizations[k][1] = row.country
                            /\ country_normalizations[k][2] = calls[i].res.country.val
                   \/ /\ row.country # <<>> /\ row.country \notin RawCountryForms
                      /\ calls[i].res.country = Some(row.country)

C6_Witness ==
    /\ Finished /\ IsEntity(result)
    /\ calls[Len(calls)].fn = "exact"
    /\ result.country = Some(<<"U","S","A">>)
    /\ \E row \in db.rows : row.name = result.matched_name /\ row.country \in RawCountryForms

\* what the claims expect of a stored row that is found
RowEntity(row) ==
    [kind |-> "entity", sport |-> row.sport, matched_name |-> row.name,
     country |->
        IF row.country = <<>> THEN None
        ELSE IF row.country \in RawCountryForms
        THEN Some(country_normalizations[CHOOSE k \in 1..Len(country_normalizations) :
                        country_normalizations[k][1] = row.country][2])
        ELSE Some(row.country)]

KeyEndsWith(row, suffix) ==
    /\ Len(row.key) >= Len(suffix)
    /\ SubSeq(row.key, Len(row.key) - Len(suffix) + 1, Len(row.key)) = suffix

\* C7 as stated: exactMatch called with a stored row's name, in any letter
\* case and with any surrounding whitespace, returns that row's sport,
\* normalized country and display name; it returns absent when no row has
\* the lowercased, trimmed query as key.
C7_ExactMatchFindsEveryRow ==
    local_call.fn = "exact" =>
        /\ \A row \in db.rows :
            lower(strip(local_call.arg)) = lower(strip(row.name)) =>
                local_call.res = RowEntity(row)
        /\ (\A row \in db.rows : row.key # lower(strip(local_call.arg))) =>
                local_call.res = Absent

\* C8 as stated: suffixMatch(q) returns absent when no stored key ends with
\* a space followed by the lowercased, trimmed q, and otherwise a row with
\* such a key of least length; never a row whose key lacks that suffix.
C8_SuffixMatchShortestKey ==
    local_call.fn = "partial" =>
        LET suffix == <<" ">> \o lower(strip(local_call.arg))
            matching == {row \in db.rows : KeyEndsWith(row, suffix)}
        IN  /\ matching = {} => local_call.res = Absent
            /\ matching # {} =>
                \E row \in matching :
                    /\ \A other \in matching : Len(row.key) <= Len(other.key)
                    /\ local_call.res = RowEntity(row)

\* C9: with the index file missing or unreadable, exactMatch and suffixMatch
\* return absent and raise nothing, and lookup_athlete goes on to the
\* external resolver: what it returns is what the external resolver gave,
\* and it returns absent only after every strategy was tried.
C9_LocalIndexUnavailable ==
    db.state # "ok" =>
        /\ \A i \in 1..Len(calls) :
            calls[i].fn \in {"exact", "partial"} => calls[i].res = Absent
        /\ Finished =>
            /\ \E i \in 1..Len(calls) : calls[i].fn = "api"
            /\ result # Absent => calls[Len(calls)] =
                    [fn |-> "api", arg |-> calls[Len(calls)].arg, res |-> result]
            /\ result = Absent => Len(calls) = AliasCalls + 3

C9_Witness ==
    /\ Finished
    /\ db.state = "corrupt"
    /\ Len(calls) = 3
    /\ calls[1].fn = "exact" /\ calls[2].fn = "partial"
    /\ calls[3].fn = "api" /\ IsEntity(calls[3].res) /\ result = calls[3].res

\* the search terms sent by the _lookup_via_api call that is strategy call r
RECURSIVE TermsSent(_, _)
TermsSent(log, r) ==
    IF log = <<>> THEN <<>>
    ELSE (IF Head(log).action = "wbsearchentities" /\ Head(log).run = r
          THEN <<Head(log).arg>> ELSE <<>>) \o TermsSent(Tail(log), r)

\* the name that call was given
RunName(r) ==
    IF IsAlias(athlete_name) /\ r = 2 THEN Canonical(athlete_name) ELSE Trimmed

\* the letters a..z, by position, that occur doubled in the lowercased name
Doubled(n) ==
    {k \in 1..26 : \E i \in 1..(Len(n) - 1) :
        lower(n)[i] = ascii_lowercase[k] /\ lower(n)[i + 1] = ascii_lowercase[k]}

\* the original term, then one variant per doubled letter in alphabet order
ExpectedTerms(n) ==
    [j \in 1..(1 + Cardinality(Doubled(n))) |->
        IF j = 1 THEN n
        ELSE LET k == CHOOSE x \in Doubled(n) :
                        Cardinality({y \in Doubled(n) : y < x}) = j - 2
             IN  replace(lower(n), <<ascii_lowercase[k], ascii_lowercase[k]>>,
                         <<ascii_lowercase[k]>>)]

\* the search for the term answers with a non-empty candidate list
NonEmptyList(term) == wiki.net.search = "ok" /\ wbsearchentities(wiki, term) # <<>>

\* the search for the term answers with a list holding a candidate that the
\* non-person filter does not reject
SelectsCandidate(term) ==
    /\ wiki.net.search = "ok"
    /\ \E i \in 1..Len(wbsearchentities(wiki, term)) :
        ~skipped(wbsearchentities(wiki, term)[i])

SearchRuns == {r \in 1..(Len(calls) + 1) : TermsSent(requests, r) # <<>>}

InOrder(r) ==
    /\ Len(TermsSent(requests, r)) <= Len(ExpectedTerms(RunName(r)))
    /\ \A j \in 1..Len(TermsSent(requests, r)) :
        TermsSent(requests, r)[j] = ExpectedTerms(RunName(r))[j]

\* C10 as stated: the original term is searched first, then the collapsed
\* variants in turn; a further search is issued only after every earlier
\* one returned an empty candidate list.
C10_StopsAtFirstNonEmptyList ==
    \A r \in SearchRuns :
        /\ InOrder(r)
        /\ \A j \in 1..(Len(TermsSent(requests, r)) - 1) :
            ~NonEmptyList(TermsSent(requests, r)[j])

\* C10 amended: the original term is searched first, then the collapsed
\* variants in turn, none when no letter is doubled; a further search is
\* issued only after every earlier one selected no candidate (its list was
\* empty or all of it rejected by the non-person filter), and a finished
\* search stage has either selected a candidate at its last term, tried
\* every term, or was left by an exception.
C10_StopsAtFirstSelection ==
    \A r \in SearchRuns :
        /\ InOrder(r)
        /\ \A j \in 1..(Len(TermsSent(requests, r)) - 1) :
            ~SelectsCandidate(TermsSent(requests, r)[j])
        /\ r <= Len(calls) =>
            \/ SelectsCandidate(TermsSent(requests, r)[Len(TermsSent(requests, r))])
            \/ Len(TermsSent(requests, r)) = Len(ExpectedTerms(RunName(r)))
            \/ calls[r].res.kind = "raised"

C10_Witness ==
    \E r \in SearchRuns :
        /\ r <= Len(calls) /\ IsEntity(calls[r].res)
        /\ Len(TermsSent(requests, r)) = 4
        /\ \E j \in 1..3 : NonEmptyList(TermsSent(requests, r)[j])


----------------------------------------------------------------------------
(* Functions of athlete_lookup.py and firebase_store.py called directly, on  *)
(* bounded sets of arguments; local_call holds the call and what it returned *)

Candidate(id, label, description) ==
    Item(id, 0, {}, label, description, <<>>, <<>>, <<>>)

\* search results as wbsearchentities returns them: some rejected by the
\* non-person filter, some with an athlete keyword, some only a person, some
\* neither, one without description and label
Candidates ==
    {Candidate("Q1", Some(<<"F","i","n","a","l">>), Some(<<"2","0","1","8"," ","f","o","o","t","b","a","l","l"," ","m","a","t","c","h">>)),
     Candidate("Q2", Some(<<"L","e","o">>), Some(<<"A","r","g","e","n","t","i","n","e"," ","f","o","o","t","b","a","l","l","e","r">>)),
     Candidate("Q3", Some(<<"A","n","n">>), Some(<<"A","m","e","r","i","c","a","n"," ","p","o","l","i","t","i","c","i","a","n"," ","(","b","o","r","n"," ","1","9","5","0",")">>)),
     Candidate("Q4", Some(<<"B","u","g">>), Some(<<"s","p","e","c","i","e","s"," ","o","f"," ","b","e","e","t","l","e">>)),
     Candidate("Q5", None, None),
     Candidate("Q6", Some(<<"C","u","p">>), Some(<<"A","w","a","r","d"," ","f","o","r"," ","t","h","e"," ","b","e","s","t"," ","T","e","n","n","i","s"," ","P","l","a","y","e","r">>)),
     Candidate("Q7", Some(<<"R","e","e","l">>), Some(<<"B","r","i","t","i","s","h"," ","f","i","l","m">>))}

\* longest result list searched directly
MaxCandidates == 3

CandidateLists ==
    {list \in UNION {[1..n -> Candidates] : n \in 0..MaxCandidates} :
        \A i, j \in DOMAIN list : list[i] = list[j] => i = j}

direct_term == <<"L","e","o">>

\* a service that answers the search for direct_term with exactly this list
world_of(results) ==
    [net |-> Net("ok", "ok", "ok"),
     items |-> {[results[i] EXCEPT !.rank = i, !.names = {lower(direct_term)}] :
                    i \in 1..Len(results)},
     labels |-> <<>>]

InitDirect ==
    /\ db = missing_db
    /\ wiki = world_of(<<>>)
    /\ label_cache = <<>>
    /\ pc = "idle"
    /\ athlete_name = <<>>
    /\ api = NoApi
    /\ calls = <<>>
    /\ requests = <<>>
    /\ result = NotFound
    /\ history = {}
    /\ local_call = [fn |-> "none"]
    /\ getters = NoGetters
    /\ room = NoRoom
    /\ sessions = NoSessions

\* a call made in the state in which nothing has been called yet
direct_call(fn, arg, res) == [fn |-> fn, arg |-> arg, res |-> res]

\* _do_search for a term the service answers with the list
DoSearchDirect(results) ==
    /\ local_call.fn = "none"
    /\ local_call' = direct_call("do_search", results,
                                 do_search(world_of(results), direct_term))
    /\ UNCHANGED <<db, wiki, label_cache, pc, athlete_name, api, calls, requests, result,
                   history, getters, room, sessions>>

\* raw sport labels: table keys in several letter cases, and labels outside the table
SportLabels ==
    {<<"s","o","c","c","e","r">>, <<"S","o","c","c","e","r">>, <<"a","s","s","o","c","i","a","t","i","o","n"," ","f","o","o","t","b","a","l","l">>, <<"A","S","S","O","C","I","A","T","I","O","N"," ","F","O","O","T","B","A","L","L">>,
     <<"i","c","e"," ","h","o","c","k","e","y">>, <<"t","r","a","c","k"," ","a","n","d"," ","f","i","e","l","d">>, <<"u","n","d","e","r","w","a","t","e","r"," ","h","o","c","k","e","y">>, <<"m","e","n","'","s"," ","c","u","r","l","i","n","g">>,
     <<"F","o","o","t","b","a","l","l">>, <<"k","a","b","a","d","d","i">>, <<"3","x","3"," ","b","a","s","k","e","t","b","a","l","l">>, <<>>}

NormalizeSportDirect(raw) ==
    /\ local_call.fn = "none"
    /\ local_call' = direct_call("normalize_sport", raw, normalize_sport(raw))
    /\ UNCHANGED <<db, wiki, label_cache, pc, athlete_name, api, calls, requests, result,
                   history, getters, room, sessions>>

\* occupation labels: labels holding a key, labels with only "player" or
\* "athlete", labels with neither, and every key of the table
OccupationLabels ==
    {<<"f","o","o","t","b","a","l","l","e","r">>, <<"a","s","s","o","c","i","a","t","i","o","n"," ","f","o","o","t","b","a","l","l"," ","p","l","a","y","e","r">>, <<"F","o","r","m","u","l","a"," ","O","n","e"," ","d","r","i","v","e","r">>,
     <<"r","e","t","i","r","e","d"," ","f","o","o","t","b","a","l","l","e","r"," ","a","n","d"," ","c","o","a","c","h">>, <<"t","e","n","n","i","s"," ","p","l","a","y","e","r">>, <<"t","a","b","l","e"," ","t","e","n","n","i","s"," ","p","l","a","y","e","r">>,
     <<"b","u","s","i","n","e","s","s","p","e","r","s","o","n">>, <<"p","o","l","o"," ","p","l","a","y","e","r">>, <<"P","o","l","o"," ","P","l","a","y","e","r">>, <<"l","a","c","r","o","s","s","e"," ","a","t","h","l","e","t","e">>,
     <<"h","a","n","d","b","a","l","l"," ","p","l","a","y","e","r">>, <<"p","l","a","y","e","r">>, <<>>}
    \cup {mappings[i][1] : i \in 1..Len(mappings)}

OccupationToSportDirect(occupation) ==
    /\ local_call.fn = "none"
    /\ local_call' = direct_call("occupation_to_sport", occupation,
                                 occupation_to_sport(occupation))
    /\ UNCHANGED <<db, wiki, label_cache, pc, athlete_name, api, calls, requests, result,
                   history, getters, room, sessions>>

\* sizes of the collections scored directly, and how many of their entries
\* share the sport or the country: on, just below and just above each threshold
Totals == {0, 1, 10, 20, 49, 50, 100}
Shares == {0, 1, 2, 3, 5, 6, 15, 16, 30, 31, 60}

Chess == <<"C","h","e","s","s">>
Football == <<"F","o","o","t","b","a","l","l">>
Norway == <<"N","o","r","w","a","y">>
USA == <<"U","S","A">>

\* a collection of the given size whose first entries are Chess, the others
\* Football, and whose first entries are from Norway, the others from the
\* USA or without country
sample_athletes(total, chess, norway) ==
    [i \in 1..total |->
        Athlete(<<"a">>, IF i <= chess THEN Chess ELSE Football,
                IF i <= norway THEN Some(Norway) ELSE IF i % 2 = 0 THEN Some(USA) ELSE None,
                "ann", 0)]

SampleCollections ==
    UNION {{sample_athletes(total, chess, norway) :
                chess \in {n \in Shares : n <= total},
                norway \in {n \in Shares : n <= total}} : total \in Totals}

CalculatePointsDirect(sport, country, athletes) ==
    /\ local_call.fn = "none"
    /\ local_call' = direct_call("calculate_athlete_points",
                                 [sport |-> sport, country |-> country, athletes |-> athletes],
                                 calculate_athlete_points(sport, country, athletes))
    /\ UNCHANGED <<db, wiki, label_cache, pc, athlete_name, api, calls, requests, result,
                   history, getters, room, sessions>>


NextDirect ==
    \/ \E results \in CandidateLists : DoSearchDirect(results)
    \/ \E raw \in SportLabels : NormalizeSportDirect(raw)
    \/ \E occupation \in OccupationLabels : OccupationToSportDirect(occupation)
    \/ \E sport \in {Chess, Football, <<"G","o","l","f">>},
          country \in {None, Some(Norway), Some(USA), Some(<<"F","i","j","i">>)},
          athletes \in SampleCollections : CalculatePointsDirect(sport, country, athletes)

SpecDirect == InitDirect /\ [][NextDirect]_vars


----------------------------------------------------------------------------
(* _get_label called by concurrent script runs of one process: Streamlit    *)
(* runs each session's script in its own thread, _label_cache is shared.    *)
(* A call is two steps, the cache test with the request going out, and the  *)
(* response coming back with the store into the cache.                      *)

Threads == {"t1", "t2"}

\* _get_label calls one thread makes
MaxLabelCalls == 2

\* Q-ids asked for: two with an English label, one without
LabelIds == {"Q39", "Q30", "Q9005"}

IdleGetter(n) == [at |-> "idle", n |-> n]

InitLabel ==
    /\ db = missing_db
    /\ wiki = [net |-> Net("ok", "ok", "ok"), items |-> {}, labels |-> Labels]
    /\ label_cache = <<>>
    /\ pc = "idle"
    /\ athlete_name = <<>>
    /\ api = NoApi
    /\ calls = <<>>
    /\ requests = <<>>
    /\ result = NotFound
    /\ history = {}
    /\ local_call = [fn |-> "none"]
    /\ getters = [t \in Threads |-> IdleGetter(0)]
    /\ room = NoRoom
    /\ sessions = NoSessions

cache_hit_never(cache, entity_id) == FALSE
\* line 416
cache_hit(cache, entity_id) == entity_id \in DOMAIN cache

\* lines 416-430: the cached label is returned, or the request goes out
GetLabelCall(t, entity_id) ==
    /\ getters[t].at \in {"idle", "returned"}
    /\ getters[t].n < MaxLabelCalls
    /\ IF cache_hit(label_cache, entity_id)
       THEN /\ getters' = [getters EXCEPT ![t] =
                    [at |-> "returned", n |-> getters[t].n + 1, id |-> entity_id,
                     ret |-> Some(label_cache[entity_id]), sent |-> FALSE]]
            /\ requests' = requests
       ELSE /\ getters' = [getters EXCEPT ![t] =
                    [at |-> "request", n |-> getters[t].n + 1, id |-> entity_id]]
            /\ requests' = Append(requests, [action |-> "labels", arg |-> entity_id, run |-> 0])
    /\ UNCHANGED <<db, wiki, label_cache, pc, athlete_name, api, calls, result,
                   history, local_call, room, sessions>>

\* lines 430-444: what the request met decides the return value; a non-empty
\* label is stored
GetLabelResponse(t, met) ==
    /\ getters[t].at = "request"
    /\ LET got == get_label([wiki EXCEPT !.net.label = met],
                            [cache |-> <<>>, reqs |-> <<>>, run |-> 0], getters[t].id)
       IN  /\ getters' = [getters EXCEPT ![t] =
                    [at |-> "returned", n |-> getters[t].n, id |-> getters[t].id,
                     ret |-> got.val, sent |-> TRUE]]
           /\ label_cache' = got.cache @@ label_cache
    /\ UNCHANGED <<db, wiki, pc, athlete_name, api, calls, requests, result,
                   history, local_call, room, sessions>>

NextLabel ==
    \/ \E t \in Threads, entity_id \in LabelIds : GetLabelCall(t, entity_id)
    \/ \E t \in Threads, met \in {"ok", "error", "malformed"} : GetLabelResponse(t, met)

SpecLabel == InitLabel /\ [][NextLabel]_vars

----------------------------------------------------------------------------
(* The room store (src/firebase_store.py) and the submission handler of the  *)
(* Streamlit script (src/app.py, lines 376-425).  The room is one JSON       *)
(* document; every store function reads it whole with one GET and writes it  *)
(* whole with one PUT.  Each player has a session whose script run is a      *)
(* thread of its own, so the requests of different players interleave.       *)
(* A dict of the document that is empty or missing reads as empty.           *)

Players == {"ann", "bob"}

\* submissions started, all players together
MaxSubmissions == 2
\* requests to the store that fail (exception or status other than 200)
MaxFailures == 1

\* create_room(room_code, password, creator)
create_room(password, creator) ==
    [password_hash |-> Some(<<"sha256", password>>), creator |-> Some(creator),
     created_at |-> Some("t0"), athletes |-> <<>>, players |-> <<>>]

\* get_room_data: the document, or {} when the request fails or there is none
get_room_data(doc, met) == IF met = "ok" THEN doc ELSE NoRoom

\* the duplicate test of athlete_exists and add_athlete
name_exists(data, athlete) ==
    \E i \in 1..Len(data.athletes) :
        lower(strip(data.athletes[i].name)) = lower(strip(athlete))

\* get_athletes: the entries sorted by added_at, newest first
get_athletes(data) ==
    [i \in 1..Len(data.athletes) |-> data.athletes[Len(data.athletes) + 1 - i]]

\* add_athlete, lines 101-119: the entry goes under a key made of the time
\* of the call, after the keys there are
with_athlete(data, athlete) == [data EXCEPT !.athletes = Append(@, athlete)]

\* data["players"][player_name], created with zeros when missing
player_data(data, player) ==
    IF player \in DOMAIN data.players THEN data.players[player]
    ELSE [current_streak |-> 0, best_streak |-> 0]

\* increment_streak, lines 188-204, on the data read
incremented(data, player) ==
    LET current == player_data(data, player).current_streak + 1
        best == player_data(data, player).best_streak
        is_new_record == current > best
    IN  [data |-> [data EXCEPT !.players =
                    (player :> [current_streak |-> current,
                                best_streak |-> IF is_new_record THEN current ELSE best]) @@ @],
         current |-> current, best |-> IF is_new_record THEN current ELSE best,
         is_new_record |-> is_new_record]

\* reset_streak, lines 212-219, on the data read
with_streak_reset(data, player) ==
    [data EXCEPT !.players =
        (player :> [current_streak |-> 0,
                    best_streak |-> player_data(data, player).best_streak]) @@ @]

\* cached_lookup: what lookup_athlete gives for the names submitted
cached_lookup(athlete) ==
    CASE lower(strip(athlete)) = <<"m","e","s","s","i">> ->
            Entity(Football, Some(<<"A","r","g","e","n","t","i","n","a">>), Lionel_Messi)
      [] lower(strip(athlete)) = <<"p","e","l","e">> ->
            Entity(Football, None, <<"P","e","l","é">>)
      [] OTHER -> NotFound

SubmittedNames == {<<"M","e","s","s","i">>, <<"m","e","s","s","i"," ">>, <<"P","e","l","e">>, <<"N","o","b","o","d","y">>}

\* a session between two submissions
IdleRun(last_result) == [at |-> "idle", last_result |-> last_result]

Mets == {"ok", "error"}

InitRoom ==
    /\ db = missing_db
    /\ wiki = world_of(<<>>)
    /\ label_cache = <<>>
    /\ pc = "idle"
    /\ athlete_name = <<>>
    /\ api = NoApi
    /\ calls = <<>>
    /\ requests = <<>>
    /\ result = NotFound
    /\ history = {}
    /\ local_call = [fn |-> "none"]
    /\ getters = NoGetters
    /\ room \in {create_room("P", "ann"),
                 with_athlete(create_room("P", "ann"),
                              Athlete(<<"Z","i","c","o">>, Football, None, "bob", 0))}
    /\ sessions = [run |-> [p \in Players |-> IdleRun(None)], submitted |-> 0, failed |-> 0]

\* the session of player p goes on as run; met is what its request met
Goes(p, run, met) ==
    /\ met = "error" => sessions.failed < MaxFailures
    /\ sessions' = [run |-> [sessions.run EXCEPT ![p] = run],
                    submitted |-> sessions.submitted,
                    failed |-> sessions.failed + IF met = "error" THEN 1 ELSE 0]

\* the form is submitted with a name: lines 376-377
Submit(p, athlete) ==
    /\ sessions.run[p].at = "idle"
    /\ sessions.submitted < MaxSubmissions
    /\ athlete # <<>>
    /\ sessions' = [run |-> [sessions.run EXCEPT ![p] =
                        [at |-> "exists", name |-> strip(athlete),
                         last_result |-> sessions.run[p].last_result]],
                    submitted |-> sessions.submitted + 1,
                    failed |-> sessions.failed]
    /\ UNCHANGED <<lookup_vars, getters, room>>

\* athlete_exists (line 379), then cached_lookup (line 382)
AthleteExists(p, met) ==
    /\ sessions.run[p].at = "exists"
    /\ LET run == sessions.run[p]
           found == cached_lookup(run.name)
       IN  IF name_exists(get_room_data(room, met), run.name)
           THEN Goes(p, IdleRun(Some([type |-> "warning", input |-> run.name])), met)
           ELSE IF found.kind = "entity"
           THEN Goes(p, [at |-> "score", name |-> run.name, result |-> found,
                         last_result |-> run.last_result], met)
           ELSE Goes(p, [at |-> "reset_read", name |-> run.name,
                         last_result |-> run.last_result], met)
    /\ UNCHANGED <<lookup_vars, getters, room>>

scored_after_insert(sport, country, athletes) ==
    [athletes |-> Append(athletes, Athlete(<<>>, sport, country, "", 0)),
     points |-> calculate_athlete_points(sport, country,
                    Append(athletes, Athlete(<<>>, sport, country, "", 0)))]
\* the call of line 396: the list passed, as it is after the call, and the
\* triple returned
scored(sport, country, athletes) ==
    [athletes |-> athletes, points |-> calculate_athlete_points(sport, country, athletes)]

\* get_athletes and calculate_athlete_points: lines 394-396
Score(p, met) ==
    /\ sessions.run[p].at = "score"
    /\ LET run == sessions.run[p]
           call == scored(run.result.sport, run.result.country,
                          get_athletes(get_room_data(room, met)))
       IN  Goes(p, [at |-> "add_read", name |-> run.name, result |-> run.result,
                    existing_athletes |-> call.athletes, points |-> call.points,
                    last_result |-> run.last_result], met)
    /\ UNCHANGED <<lookup_vars, getters, room>>

\* add_athlete (lines 400-401), the read and the duplicate test: lines 95-99
AddRead(p, met) ==
    /\ sessions.run[p].at = "add_read"
    /\ LET run == sessions.run[p]
           data == get_room_data(room, met)
           athlete == [Athlete(run.name, run.result.sport, run.result.country, p, 0)
                            EXCEPT !.matched_name = run.result.matched_name]
       IN  IF name_exists(data, run.name)
           THEN Goes(p, [at |-> "incr_read", name |-> run.name, result |-> run.result,
                         existing_athletes |-> run.existing_athletes,
                         points |-> run.points, added |-> FALSE,
                         last_result |-> run.last_result], met)
           ELSE Goes(p, [at |-> "add_write", name |-> run.name, result |-> run.result,
                         existing_athletes |-> run.existing_athletes,
                         points |-> run.points, data |-> with_athlete(data, athlete),
                         last_result |-> run.last_result], met)
    /\ UNCHANGED <<lookup_vars, getters, room>>

\* add_athlete, the write: line 121; app.py does not look at what it returns
AddWrite(p, met) ==
    /\ sessions.run[p].at = "add_write"
    /\ LET run == sessions.run[p]
       IN  /\ Goes(p, [at |-> "incr_read", name |-> run.name, result |-> run.result,
                       existing_athletes |-> run.existing_athletes,
                       points |-> run.points, added |-> met = "ok",
                       last_result |-> run.last_result], met)
           /\ room' = IF met = "ok" THEN run.data ELSE room
    /\ UNCHANGED <<lookup_vars, getters>>

\* increment_streak (line 402), the read: lines 188-204
IncrementRead(p, met) ==
    /\ sessions.run[p].at = "incr_read"
    /\ LET run == sessions.run[p]
       IN  Goes(p, [at |-> "incr_write", name |-> run.name, result |-> run.result,
                    points |-> run.points, added |-> run.added,
                    streak |-> incremented(get_room_data(room, met), p),
                    last_result |-> run.last_result], met)
    /\ UNCHANGED <<lookup_vars, getters, room>>

\* increment_streak, the write (line 206), and the result shown: lines 409-422
IncrementWrite(p, met) ==
    /\ sessions.run[p].at = "incr_write"
    /\ LET run == sessions.run[p]
       IN  /\ Goes(p, IdleRun(Some([type |-> "success", input |-> run.name,
                                    points |-> run.points.total_pts,
                                    sport_bonus |-> run.points.sport_bonus,
                                    country_bonus |-> run.points.country_bonus,
                                    streak |-> run.streak.current,
                                    is_record |-> run.streak.is_new_record,
                                    added |-> run.added])), met)
           /\ room' = IF met = "ok" THEN run.streak.data ELSE room
    /\ UNCHANGED <<lookup_vars, getters>>

\* reset_streak (line 424), the read: lines 212-219
ResetRead(p, met) ==
    /\ sessions.run[p].at = "reset_read"
    /\ LET run == sessions.run[p]
       IN  Goes(p, [at |-> "reset_write", name |-> run.name,
                    data |-> with_streak_reset(get_room_data(room, met), p),
                    last_result |-> run.last_result], met)
    /\ UNCHANGED <<lookup_vars, getters, room>>

\* reset_streak, the write (line 220), and the error shown: line 425
ResetWrite(p, met) ==
    /\ sessions.run[p].at = "reset_write"
    /\ LET run == sessions.run[p]
       IN  /\ Goes(p, IdleRun(Some([type |-> "error", input |-> run.name])), met)
           /\ room' = IF met = "ok" THEN run.data ELSE room
    /\ UNCHANGED <<lookup_vars, getters>>

NextRoom ==
    \/ \E p \in Players, athlete \in SubmittedNames : Submit(p, athlete)
    \/ \E p \in Players, met \in Mets : AthleteExists(p, met)
    \/ \E p \in Players, met \in Mets : Score(p, met)
    \/ \E p \in Players, met \in Mets : AddRead(p, met)
    \/ \E p \in Players, met \in Mets : AddWrite(p, met)
    \/ \E p \in Players, met \in Mets : IncrementRead(p, met)
    \/ \E p \in Players, met \in Mets : IncrementWrite(p, met)
    \/ \E p \in Players, met \in Mets : ResetRead(p, met)
    \/ \E p \in Players, met \in Mets : ResetWrite(p, met)

SpecRoom == InitRoom /\ [][NextRoom]_vars

----------------------------------------------------------------------------
(* The room store called one call after another (src/firebase_store.py):    *)
(* every call runs from its GET to its PUT before the next one starts.      *)
(* calls holds the functions called so far, local_call the last call and   *)
(* what it returned, history the streaks the players have reached,          *)
(* sessions the number of calls and of failed requests                      *)

\* calls made one after another
MaxStoreCalls == 3

\* save_room_data: the document after the PUT
save_room_data(doc, data, met) == IF met = "ok" THEN data ELSE doc

\* add_athlete: the document afterwards and the value returned
add_athlete(doc, athlete, rmet, wmet) ==
    LET data == get_room_data(doc, rmet)
    IN  IF name_exists(data, athlete.name)
        THEN [room |-> doc, ret |-> FALSE]
        ELSE [room |-> save_room_data(doc, with_athlete(data, athlete), wmet),
              ret |-> wmet = "ok"]

\* increment_streak: the document afterwards and (current, best, is_new_record)
increment_streak(doc, player, rmet, wmet) ==
    LET streak == incremented(get_room_data(doc, rmet), player)
    IN  [room |-> save_room_data(doc, streak.data, wmet),
         ret |-> [current |-> streak.current, best |-> streak.best,
                  is_new_record |-> streak.is_new_record]]

\* reset_streak: the document afterwards
reset_streak(doc, player, rmet, wmet) ==
    [room |-> save_room_data(doc, with_streak_reset(get_room_data(doc, rmet), player), wmet),
     ret |-> None]

\* clear_room: only the password hash read is written back, "" when the
\* document read has none
clear_room(doc, rmet, wmet) ==
    LET data == get_room_data(doc, rmet)
    IN  [room |-> save_room_data(doc,
                    [NoRoom EXCEPT !.password_hash =
                        IF data.password_hash.some THEN data.password_hash ELSE Some(<<>>)],
                    wmet),
         ret |-> None]

\* verify_room_password
verify_room_password(doc, password, met) ==
    LET data == get_room_data(doc, met)
    IN  /\ data # NoRoom
        /\ data.password_hash.some
        /\ data.password_hash.val = <<"sha256", password>>

\* room_exists
room_exists(doc, met) == met = "ok" /\ doc # NoRoom /\ doc.password_hash.some

\* sum over the entries of a player in athletes[1..n] of the points
\* calculate_athlete_points gives on the whole list, plus the stored bonus
RECURSIVE total_pts(_, _, _)
total_pts(athletes, player, n) ==
    IF n = 0 THEN 0
    ELSE total_pts(athletes, player, n - 1) +
         IF athletes[n].added_by = player
         THEN calculate_athlete_points(athletes[n].sport, athletes[n].country,
                                       athletes).total_pts + athletes[n].challenge_bonus
         ELSE 0

\* get_player_scores: total_pts and count of every player with an entry
get_player_scores(doc, met) ==
    LET athletes == get_athletes(get_room_data(doc, met))
        players == {athletes[i].added_by : i \in 1..Len(athletes)}
    IN  [player \in players |->
            [total_pts |-> total_pts(athletes, player, Len(athletes)),
             count |-> count_of(athletes, "added_by", player)]]

\* a room that has been played in: three Football entries of bob, one Chess
\* entry of ann
PlayedRoom ==
    [create_room("P", "ann") EXCEPT
        !.athletes = <<Athlete(<<"Z","i","c","o">>, Football, None, "bob", 0),
                       Athlete(<<"K","a","k","a">>, Football, Some(<<"B","r","a","z","i","l">>), "bob", 3),
                       Athlete(<<"C","a","r","l","s","e","n">>, Chess, Some(Norway), "ann", 0),
                       Athlete(<<"P","e","l","e">>, Football, None, "bob", 0)>>,
        !.players = ("ann" :> [current_streak |-> 1, best_streak |-> 2]) @@
                    ("bob" :> [current_streak |-> 3, best_streak |-> 3])]

\* the entries add_athlete is called with
StoreAdds ==
    {Athlete(athlete, Football, Some(<<"A","r","g","e","n","t","i","n","a">>), player, bonus) :
        athlete \in {<<"M","e","s","s","i">>, <<"M","E","S","S","I"," ">>}, player \in Players, bonus \in {0, 3}}
    \cup {Athlete(<<"A","n","a","n","d">>, Chess, Some(<<"I","n","d","i","a">>), player, 0) : player \in Players}

\* the streaks a document shows, as (player, current_streak)
streaks_of(doc) == {<<p, player_data(doc, p).current_streak>> : p \in Players}

InitStore ==
    /\ db = missing_db
    /\ wiki = world_of(<<>>)
    /\ label_cache = <<>>
    /\ pc = "idle"
    /\ athlete_name = <<>>
    /\ api = NoApi
    /\ calls = <<>>
    /\ requests = <<>>
    /\ result = NotFound
    /\ local_call = [fn |-> "none"]
    /\ getters = NoGetters
    /\ room \in {create_room("P", "ann"), PlayedRoom}
    /\ history = {<<p, player_data(room, p).best_streak>> : p \in Players}
    /\ sessions = NoSessions

\* the requests of a call that failed
failures(rmet, wmet) ==
    (IF rmet = "error" THEN 1 ELSE 0) + (IF wmet = "error" THEN 1 ELSE 0)

\* the call fn(arg) has run: it left done.room and returned done.ret
StoreCall(fn, arg, done, rmet, wmet) ==
    /\ room' = done.room
    /\ calls' = Append(calls, fn)
    /\ local_call' = direct_call(fn, arg, done.ret)
    /\ history' = history \cup streaks_of(done.room)
    /\ sessions' = [sessions EXCEPT !.submitted = @ + 1, !.failed = @ + failures(rmet, wmet)]

\* add_athlete makes no PUT when it finds the name
AddAthlete(athlete, rmet, wmet) ==
    /\ sessions.submitted < MaxStoreCalls
    /\ sessions.failed + failures(rmet, wmet) <= MaxFailures
    /\ name_exists(get_room_data(room, rmet), athlete.name) => wmet = "ok"
    /\ StoreCall("add_athlete", athlete, add_athlete(room, athlete, rmet, wmet), rmet, wmet)
    /\ UNCHANGED <<db, wiki, label_cache, pc, athlete_name, api, requests, result, getters>>

IncrementStreak(player, rmet, wmet) ==
    /\ sessions.submitted < MaxStoreCalls
    /\ sessions.failed + failures(rmet, wmet) <= MaxFailures
    /\ StoreCall("increment_streak", player, increment_streak(room, player, rmet, wmet),
                 rmet, wmet)
    /\ UNCHANGED <<db, wiki, label_cache, pc, athlete_name, api, requests, result, getters>>

ResetStreak(player, rmet, wmet) ==
    /\ sessions.submitted < MaxStoreCalls
    /\ sessions.failed + failures(rmet, wmet) <= MaxFailures
    /\ StoreCall("reset_streak", player, reset_streak(room, player, rmet, wmet), rmet, wmet)
    /\ UNCHANGED <<db, wiki, label_cache, pc, athlete_name, api, requests, result, getters>>

ClearRoom(rmet, wmet) ==
    /\ sessions.submitted < MaxStoreCalls
    /\ sessions.failed + failures(rmet, wmet) <= MaxFailures
    /\ StoreCall("clear_room", None, clear_room(room, rmet, wmet), rmet, wmet)
    /\ UNCHANGED <<db, wiki, label_cache, pc, athlete_name, api, requests, result, getters>>

NextStore ==
    \/ \E athlete \in StoreAdds, rmet \in Mets, wmet \in Mets : AddAthlete(athlete, rmet, wmet)
    \/ \E player \in Players, rmet \in Mets, wmet \in Mets : IncrementStreak(player, rmet, wmet)
    \/ \E player \in Players, rmet \in Mets, wmet \in Mets : ResetStreak(player, rmet, wmet)
    \/ \E rmet \in Mets, wmet \in Mets : ClearRoom(rmet, wmet)

SpecStore == InitStore /\ [][NextStore]_vars

----------------------------------------------------------------------------
(* Claims C11 - C20 *)

\* the candidate's lowercased description holds a non-person keyword
Rejected(candidate) ==
    /\ candidate.description.some
    /\ \E k \in {<<"r","i","v","a","l","r","y">>, <<"m","a","t","c","h">>, <<"t","o","u","r","n","a","m","e","n","t">>, <<"c","h","a","m","p","i","o","n","s","h","i","p">>, <<"g","a","m","e">>,
                 <<"s","e","a","s","o","n">>, <<"t","e","a","m">>, <<"c","l","u","b">>, <<"s","t","a","d","i","u","m">>, <<"a","w","a","r","d">>, <<"r","e","c","o","r","d">>,
                 <<"f","i","l","m">>, <<"s","o","n","g">>, <<"a","l","b","u","m">>, <<"b","o","o","k">>, <<"s","e","r","i","e","s">>, <<"e","p","i","s","o","d","e">>} :
        contains(k, lower(candidate.description.val))

\* the place in the list of the candidate a direct _do_search returned
Selected ==
    CHOOSE i \in 1..Len(local_call.arg) : local_call.arg[i].id = local_call.res.val.entity_id

\* C11: disambiguation never selects a candidate whose description contains
\* a non-person keyword, whatever the order of the list, and selects nothing
\* when every candidate of the list is rejected.
C11_NeverSelectsRejected ==
    local_call.fn = "do_search" =>
        /\ local_call.res.some =>
            /\ \E i \in 1..Len(local_call.arg) :
                local_call.arg[i].id = local_call.res.val.entity_id
            /\ ~Rejected(local_call.arg[Selected])
        /\ (\A i \in 1..Len(local_call.arg) : Rejected(local_call.arg[i])) =>
            local_call.res = None

\* a rejected candidate with an athlete keyword stands before the selected one
C11_Witness ==
    /\ local_call.fn = "do_search"
    /\ local_call.res.some
    /\ Selected = 3
    /\ local_call.arg[1].id = "Q6"
    /\ local_call.arg[2].id = "Q1"

HasAthleteKeyword(candidate) ==
    /\ candidate.description.some
    /\ \E i \in 1..Len(athlete_keywords) :
        contains(athlete_keywords[i], lower(candidate.description.val))

HasPersonKeyword(candidate) ==
    /\ candidate.description.some
    /\ \/ contains(<<"b","o","r","n">>, lower(candidate.description.val))
       \/ \E i \in 1..Len(nationalities) :
            contains(nationalities[i], lower(candidate.description.val))

Least(S) == CHOOSE i \in S : \A j \in S : i <= j

\* C12: the first non-rejected candidate with an athlete keyword wins; if
\* there is none, the first non-rejected candidate with "born" or a
\* nationality adjective; if there is none, the first non-rejected one.
C12_ThreePassesInPriority ==
    local_call.fn = "do_search" =>
        LET open == {i \in 1..Len(local_call.arg) : ~Rejected(local_call.arg[i])}
            athletes == {i \in open : HasAthleteKeyword(local_call.arg[i])}
            persons == {i \in open : HasPersonKeyword(local_call.arg[i])}
            winner == IF athletes # {} THEN Least(athletes)
                      ELSE IF persons # {} THEN Least(persons)
                      ELSE Least(open)
        IN  IF open = {} THEN local_call.res = None
            ELSE /\ local_call.res.some
                 /\ local_call.res.val.entity_id = local_call.arg[winner].id

\* the athlete is selected although a person and a plain candidate precede it
C12_Witness ==
    /\ local_call.fn = "do_search"
    /\ Len(local_call.arg) = 3
    /\ local_call.arg[1].id = "Q4"
    /\ local_call.arg[2].id = "Q3"
    /\ local_call.arg[3].id = "Q2"
    /\ local_call.res.some
    /\ local_call.res.val.entity_id = "Q2"

\* the English label the service gives for a Q-id, if it gives one
LabelGiven(q) ==
    IF wiki.net.label = "ok" /\ q \in DOMAIN wiki.labels /\ wiki.labels[q] # <<>>
    THEN Some(wiki.labels[q]) ELSE None

\* the occupation claims, by place, that occupationToSport maps to a sport
MappedOccupations(item) ==
    {i \in 1..Len(item.P106) :
        /\ item.P106[i].some
        /\ LabelGiven(item.P106[i].val).some
        /\ occupation_to_sport(LabelGiven(item.P106[i].val).val).some}

SportClaimLabel(item) ==
    IF item.P641 # <<>> /\ item.P641[1].some THEN LabelGiven(item.P641[1].val) ELSE None

DerivedSport(item) ==
    IF SportClaimLabel(item).some THEN Some(normalize_sport(SportClaimLabel(item).val))
    ELSE IF MappedOccupations(item) # {}
    THEN occupation_to_sport(LabelGiven(item.P106[Least(MappedOccupations(item))].val).val)
    ELSE None

DerivedCountry(item) ==
    IF item.P27 # <<>> /\ item.P27[1].some /\ LabelGiven(item.P27[1].val).some
    THEN Some(normalize_country(LabelGiven(item.P27[1].val).val))
    ELSE None

\* the items whose claims strategy call r fetched
Fetched(r) ==
    {item \in wiki.items :
        /\ wiki.net.entity = "ok"
        /\ \E j \in 1..Len(requests) :
            requests[j] = [action |-> "wbgetentities", arg |-> item.id, run |-> r]}

\* C13: for the winning candidate whose claims were fetched, the external
\* resolver returns a result exactly when a sport can be derived: from the
\* sport claim when it yields a label, else from the first occupation claim
\* that occupationToSport maps; a missing country leaves the country absent.
C13_ResultIffSportDerived ==
    \A r \in 1..Len(calls) :
        calls[r].fn = "api" =>
            \A item \in Fetched(r) :
                IF DerivedSport(item).some
                THEN /\ IsEntity(calls[r].res)
                     /\ calls[r].res.sport = DerivedSport(item).val
                     /\ calls[r].res.country = DerivedCountry(item)
                ELSE calls[r].res = Absent

\* the sport claim has no label, the first occupation maps to nothing, the
\* second gives the sport, and there is no country claim
C13_Witness ==
    \E r \in 1..Len(calls) :
        /\ calls[r].fn = "api"
        /\ Q_hogg \in Fetched(r)
        /\ IsEntity(calls[r].res)
        /\ calls[r].res.sport = <<"H","a","n","d","b","a","l","l">>
        /\ calls[r].res.country = None

\* C14 as stated: no exception leaves lookup_athlete; a network error, a
\* status other than 200 or a malformed payload at any external call site
\* counts as no data from that stage, and the call ends with an entity or
\* absent.
C14_NoExceptionLeaves ==
    /\ result.kind # "raised"
    /\ \A r \in 1..Len(calls) : calls[r].res.kind # "raised"
    /\ \A h \in history : h.res.kind # "raised"

\* C15: the label cache is append-only and memoizing, in every interleaving
\* of _get_label calls: a stored label is never changed or removed, a call
\* that begins when its Q-id is stored returns the stored label and sends no
\* request, and an entry is stored only by a fetch that returned a non-empty
\* label.
C15_CacheAppendOnlyMemoizing ==
    [][/\ \A q \in DOMAIN label_cache :
            q \in DOMAIN label_cache' /\ label_cache'[q] = label_cache[q]
       /\ \A t \in DOMAIN getters :
            (getters[t].at # "request" /\ getters'[t] # getters[t]
                /\ getters'[t].id \in DOMAIN label_cache) =>
                    /\ getters'[t].at = "returned"
                    /\ getters'[t].ret = Some(label_cache[getters'[t].id])
                    /\ requests' = requests
       /\ \A q \in DOMAIN label_cache' \ DOMAIN label_cache :
            /\ label_cache'[q] # <<>>
            /\ \E t \in DOMAIN getters :
                /\ getters[t].at = "request" /\ getters[t].id = q
                /\ getters'[t].at = "returned"
                /\ getters'[t].ret = Some(label_cache'[q])]_vars

\* one thread got a stored label without a request while the other's fetch
\* of a Q-id without label came back empty and stored nothing
C15_Witness ==
    /\ DOMAIN getters = Threads
    /\ \E t, u \in Threads :
        /\ getters[t].at = "returned" /\ getters[t].id = "Q39" /\ ~getters[t].sent
        /\ getters[t].ret = Some(label_cache["Q39"])
        /\ getters[u].at = "returned" /\ getters[u].id = "Q9005" /\ getters[u].sent
        /\ getters[u].ret = None
        /\ "Q9005" \notin DOMAIN label_cache

\* the string with the first letter of every run of letters in upper case
\* and the other letters in lower case
TitleCased(s) ==
    [i \in 1..Len(s) |->
        IF i = 1 \/ ~is_cased(s[i - 1]) THEN upper_char(s[i]) ELSE lower_char(s[i])]

\* C16: normalizeSport(raw) is the synonym-table value when raw.lower() is a
\* table key ("soccer" and "association football" give "Football"), and
\* otherwise raw title-cased ("underwater hockey" gives "Underwater Hockey").
C16_NormalizeSport ==
    local_call.fn = "normalize_sport" =>
        /\ \A k \in 1..Len(sport_normalizations) :
            sport_normalizations[k][1] = lower(local_call.arg) =>
                local_call.res = sport_normalizations[k][2]
        /\ (\A k \in 1..Len(sport_normalizations) :
                sport_normalizations[k][1] # lower(local_call.arg)) =>
                    local_call.res = TitleCased(local_call.arg)
        /\ local_call.arg \in {<<"s","o","c","c","e","r">>, <<"a","s","s","o","c","i","a","t","i","o","n"," ","f","o","o","t","b","a","l","l">>} =>
                local_call.res = <<"F","o","o","t","b","a","l","l">>
        /\ local_call.arg = <<"u","n","d","e","r","w","a","t","e","r"," ","h","o","c","k","e","y">> => local_call.res = <<"U","n","d","e","r","w","a","t","e","r"," ","H","o","c","k","e","y">>

\* a table key written in upper case is found
C16_Witness ==
    /\ local_call.fn = "normalize_sport"
    /\ local_call.arg = <<"A","S","S","O","C","I","A","T","I","O","N"," ","F","O","O","T","B","A","L","L">>
    /\ local_call.res = <<"F","o","o","t","b","a","l","l">>

\* C17 as stated: occupationToSport(label) is the sport of the first table
\* entry whose key occurs in the lowercased label; with no such entry and
\* "player" or "athlete" in the label it is the label with that word
\* removed, title-cased; otherwise absent.
C17_OccupationToSport ==
    local_call.fn = "occupation_to_sport" =>
        LET label == lower(local_call.arg)
            hits == {i \in 1..Len(mappings) : contains(lower(mappings[i][1]), label)}
            rest == strip(replace(replace(label, <<"p","l","a","y","e","r">>, <<>>), <<"a","t","h","l","e","t","e">>, <<>>))
        IN  IF hits # {} THEN local_call.res = Some(mappings[Least(hits)][2])
            ELSE IF contains(<<"p","l","a","y","e","r">>, label) \/ contains(<<"a","t","h","l","e","t","e">>, label)
            THEN /\ local_call.res.some
                 /\ strip(local_call.res.val) = TitleCased(rest)
            ELSE local_call.res = None

\* entries of the scored collection with the sport, and with the country
WithSport == {i \in 1..Len(local_call.arg.athletes) :
                local_call.arg.athletes[i].sport = local_call.arg.sport}
WithCountry == {i \in 1..Len(local_call.arg.athletes) :
                local_call.arg.athletes[i].country = local_call.arg.country}
SizeOrOne == IF Len(local_call.arg.athletes) > 1 THEN Len(local_call.arg.athletes) ELSE 1

\* the percentage 100 * count / SizeOrOne is at most bound
AtMostPct(count, bound) == 100 * count <= bound * SizeOrOne

\* C18: the scorer returns (1 + sportBonus + countryBonus, sportBonus,
\* countryBonus); sportBonus is 4, 3, 2, 1, 0 for a sport percentage up to
\* 2, 5, 15, 30 and above, countryBonus is 0 without country and else 2, 1,
\* 0 for a country percentage up to 2, 5 and above; the empty collection
\* counts as size 1 and gives sportBonus 4.
C18_RarityPoints ==
    local_call.fn = "calculate_athlete_points" =>
        LET p == Cardinality(WithSport)
            q == Cardinality(WithCountry)
            sportBonus == CASE AtMostPct(p, 2) -> 4
                            [] ~AtMostPct(p, 2) /\ AtMostPct(p, 5) -> 3
                            [] ~AtMostPct(p, 5) /\ AtMostPct(p, 15) -> 2
                            [] ~AtMostPct(p, 15) /\ AtMostPct(p, 30) -> 1
                            [] ~AtMostPct(p, 30) -> 0
            countryBonus == CASE ~local_call.arg.country.some -> 0
                              [] local_call.arg.country.some /\ AtMostPct(q, 2) -> 2
                              [] local_call.arg.country.some /\ ~AtMostPct(q, 2)
                                    /\ AtMostPct(q, 5) -> 1
                              [] local_call.arg.country.some /\ ~AtMostPct(q, 5) -> 0
        IN  /\ local_call.res = [total_pts |-> 1 + sportBonus + countryBonus,
                                 sport_bonus |-> sportBonus, country_bonus |-> countryBonus]
            /\ local_call.arg.athletes = <<>> => local_call.res.sport_bonus = 4
            /\ (Len(local_call.arg.athletes) = 100 /\ ~local_call.arg.country.some) =>
                /\ p = 2 => local_call.res.total_pts = 5
                /\ p = 40 => local_call.res.total_pts = 1

\* 3 of 20 entries have the sport, 15 percent exactly, and 1 of 20 the
\* country, 5 percent exactly: both thresholds are inclusive
C18_Witness ==
    /\ local_call.fn = "calculate_athlete_points"
    /\ Len(local_call.arg.athletes) = 20
    /\ Cardinality(WithSport) = 3
    /\ local_call.arg.country.some
    /\ Cardinality(WithCountry) = 1
    /\ local_call.res = [total_pts |-> 4, sport_bonus |-> 2, country_bonus |-> 1]

\* the session has been through the scorer and still holds what it passed
HasScored(run) == run.at \in {"add_read", "add_write", "incr_read"}

\* the stored entries, newest first: the list get_athletes hands to the scorer
NewestFirst(athletes) == [i \in 1..Len(athletes) |-> athletes[Len(athletes) + 1 - i]]

C20_ScoredBeforeInsert ==
    \A p \in DOMAIN sessions.run :
        sessions.run[p].at = "add_write" =>
            LET run == sessions.run[p]
                before == SubSeq(run.data.athletes, 1, Len(run.data.athletes) - 1)
            IN  /\ run.existing_athletes = NewestFirst(before)
                /\ run.points =
                    calculate_athlete_points(run.result.sport, run.result.country, before)


----------------------------------------------------------------------------
(* Streaks and the room document under the submission handler *)

\* C21 as stated: a submission that resolves to not-found sets the
\* submitting player's current streak to 0 and leaves their best streak as
\* it was; a submission of a name already in the room changes neither
\* streak; neither changes the streaks of another player.
C21_NotFoundResetsOnlyOwnStreak ==
    [][\A p \in DOMAIN sessions.run :
        /\ (sessions.run[p].at = "reset_write" /\ sessions'.run[p].at = "idle") =>
            /\ player_data(room', p).current_streak = 0
            /\ player_data(room', p).best_streak = player_data(room, p).best_streak
            /\ \A q \in Players \ {p} : player_data(room', q) = player_data(room, q)
        /\ (sessions.run[p].at = "exists" /\ sessions'.run[p].at = "idle") =>
            \A q \in Players : player_data(room', q) = player_data(room, q)]_vars

\* the names of a collection, lowercased and trimmed, are all different
NoSameName(athletes) ==
    \A i, j \in 1..Len(athletes) :
        lower(strip(athletes[i].name)) = lower(strip(athletes[j].name)) => i = j

\* C22 as stated: add_athlete returns False and leaves the collection as it
\* is when the name, lowercased and trimmed, is already there; a call that
\* returns True has appended exactly its entry to the collection; and after
\* calls made one after another no two entries have the same name.
C22_AddAthleteRejectsDuplicates ==
    [][calls' # calls /\ (\A i \in DOMAIN calls' : calls'[i] = "add_athlete") =>
        /\ name_exists(room, local_call'.arg.name) =>
            (local_call'.res = FALSE /\ room'.athletes = room.athletes)
        /\ local_call'.res = TRUE => room'.athletes = Append(room.athletes, local_call'.arg)
        /\ NoSameName(room'.athletes)]_vars

\* the largest current streak the player has reached
LargestReached(p) ==
    CHOOSE n \in {h[2] : h \in {g \in history : g[1] = p}} :
        \A h \in history : h[1] = p => h[2] <= n

\* C23 as stated: after calls of increment_streak and reset_streak one
\* after another, for each player best_streak >= current_streak, best_streak
\* never decreases and is the largest current_streak reached;
\* increment_streak raises current_streak by exactly 1 and reports
\* is_new_record exactly when the new current_streak is greater than the
\* best_streak before the call.
C23_StreakInvariants ==
    [][calls' # calls /\ (\A i \in DOMAIN calls' :
                                calls'[i] \in {"increment_streak", "reset_streak"}) =>
        /\ \A p \in Players :
            /\ player_data(room', p).best_streak >= player_data(room', p).current_streak
            /\ player_data(room', p).best_streak >= player_data(room, p).best_streak
            /\ player_data(room', p).best_streak = LargestReached(p)'
        /\ local_call'.fn = "increment_streak" =>
            LET p == local_call'.arg
            IN  /\ local_call'.res.current = player_data(room, p).current_streak + 1
                /\ local_call'.res.is_new_record =
                    (local_call'.res.current > player_data(room, p).best_streak)]_vars

\* C24 as stated: when add_athlete has returned False (the name was added
\* meanwhile, or the write failed) the submission does not increment the
\* player's streak and records no success result.
C24_StreakOnlyOnSuccessfulAdd ==
    [][\A p \in DOMAIN sessions.run :
        (/\ sessions.run[p].at = "incr_write" /\ sessions'.run[p].at = "idle"
         /\ ~sessions.run[p].added) =>
            /\ player_data(room', p) = player_data(room, p)
            /\ sessions'.run[p].last_result.val.type # "success"]_vars

\* the parts of the document a call does not target are as before the call
OthersKept(before, after, fn, arg) ==
    /\ after.password_hash = before.password_hash
    /\ after.creator = before.creator
    /\ after.created_at = before.created_at
    /\ \A i \in 1..Len(before.athletes) :
        i <= Len(after.athletes) /\ after.athletes[i] = before.athletes[i]
    /\ \A p \in Players :
        (fn = "add_athlete" \/ p # arg) => player_data(after, p) = player_data(before, p)

\* C25 as stated: add_athlete, increment_streak and reset_streak leave every
\* existing entry, every other player's streaks and the room's
\* password_hash, creator and created_at as they were, also when the read of
\* the call fails and its write succeeds.
C25_CallsKeepTheRest ==
    [][calls' # calls
       /\ local_call'.fn \in {"add_athlete", "increment_streak", "reset_streak"} =>
            OthersKept(room, room', local_call'.fn, local_call'.arg)]_vars

\* every session is between two submissions
AllIdle == \A p \in DOMAIN sessions.run : sessions.run[p].at = "idle"

\* C26 as stated: when the operations of two clients on one room interleave
\* and no request fails, then once they have completed every add_athlete
\* that returned True has its entry in the room and every completed streak
\* change shows in the room.
C26_NoLostUpdate ==
    (sessions.failed = 0 /\ AllIdle) =>
        \A p \in DOMAIN sessions.run :
            LET last == sessions.run[p].last_result
            IN  last.some =>
                /\ (last.val.type = "success" /\ last.val.added) =>
                    \E i \in 1..Len(room.athletes) :
                        /\ room.athletes[i].name = last.val.input
                        /\ room.athletes[i].added_by = p
                /\ last.val.type = "success" =>
                    player_data(room, p).current_streak = last.val.streak
                /\ last.val.type = "error" => player_data(room, p).current_streak = 0

\* the names, lowercased, for which the add_athlete call of the player's
\* latest submission returned True
AddedNames(p) ==
    LET run == sessions.run[p]
    IN  IF run.at \in {"incr_read", "incr_write"} /\ run.added THEN {lower(run.name)}
        ELSE IF /\ run.at = "idle" /\ run.last_result.some
                /\ run.last_result.val.type = "success" /\ run.last_result.val.added
        THEN {lower(run.last_result.val.input)}
        ELSE {}

\* C27 as stated: when two players submit the same name (after lowercasing
\* and trimming) and no request fails, the room holds at most one entry for
\* the name and at most one of the two add_athlete calls returns True.
C27_SameNameAddedOnce ==
    sessions.failed = 0 =>
        /\ NoSameName(room.athletes)
        /\ \A p, q \in DOMAIN sessions.run : p # q => AddedNames(p) \cap AddedNames(q) = {}

\* C28 as stated: every entry of the occupation table is effective: for each
\* key of the table occupationToSport returns the sport the table gives it.
C28_EveryTableEntryEffective ==
    local_call.fn = "occupation_to_sport" =>
        \A i \in 1..Len(mappings) :
            local_call.arg = mappings[i][1] => local_call.res = Some(mappings[i][2])

\* C29 as stated: once create_room has succeeded with password P, after any
\* calls of add_athlete, increment_streak, reset_streak and clear_room, also
\* calls whose read fails, room_exists is true and verify_room_password
\* accepts P and no other password.
C29_PasswordStable ==
    /\ room_exists(room, "ok")
    /\ verify_room_password(room, "P", "ok")
    /\ \A password \in {"Q", ""} : ~verify_room_password(room, password, "ok")

\* the points get_player_scores counts for the entry: the scorer on the
\* collection read, plus the stored bonus
counted(entry, athletes) ==
    calculate_athlete_points(entry.sport, entry.country, athletes).total_pts
        + entry.challenge_bonus

\* C30 as stated: when an athlete is added to the room (no request failing),
\* the total_pts get_player_scores gives a player does not decrease and the
\* points counted for an entry added before do not change.
C30_TotalsStableUnderAdditions ==
    [][(/\ calls' # calls /\ sessions'.failed = 0
        /\ local_call'.fn = "add_athlete" /\ local_call'.res = TRUE) =>
        /\ \A p \in DOMAIN get_player_scores(room, "ok") :
            /\ p \in DOMAIN get_player_scores(room', "ok")
            /\ get_player_scores(room', "ok")[p].total_pts
                >= get_player_scores(room, "ok")[p].total_pts
        /\ \A i \in 1..Len(room.athletes) :
            counted(room.athletes[i], room'.athletes) = counted(room.athletes[i], room.athletes)]_vars
====
